---- MODULE Spec2Model ----
(***************************************************************************)
(* Model of werf's cleanup subsystem: the repository tag schema of the     *)
(* stages storage (pkg/storage), the images cleanup engine and the stages  *)
(* purge (pkg/cleaning), and the locks they run under.                     *)
(*                                                                         *)
(* Strings that the code takes apart (repository tags, image names,        *)
(* commits) are sequences of one-character strings; strings that are only  *)
(* compared or concatenated (label values, Repository:Tag names) are TLA+  *)
(* strings.                                                                *)
(***************************************************************************)
EXTENDS Integers, Sequences, FiniteSets, TLC

\* -------------------------------------------------------------------------
\* strings.* helpers of the Go standard library, on character sequences
\* -------------------------------------------------------------------------

\* F(e), with e evaluated once however often F uses its argument.
Once(F(_), e) == CHOOSE r \in {F(x) : x \in {e}} : TRUE

RECURSIVE SeqOfStr(_, _)
\* A character sequence as the string it spells (used for labels and logs).
SeqOfStr(s, i) == IF i > Len(s) THEN "" ELSE s[i] \o SeqOfStr(s, i + 1)

\* strings.HasPrefix
HasPrefix(s, prefix) ==
    \E x \in {s} : /\ Len(prefix) <= Len(x)
                   /\ SubSeq(x, 1, Len(prefix)) = prefix

\* strings.TrimPrefix
TrimPrefix(s, prefix) ==
    Once(LAMBDA x : IF HasPrefix(x, prefix) THEN SubSeq(x, Len(prefix) + 1, Len(x)) ELSE x, s)

RECURSIVE ReplaceAllFrom(_, _, _, _)
\* The replacement of the part of s from position i on.
ReplaceAllFrom(s, old, new, i) ==
    LET at == {j \in i..(Len(s) - Len(old) + 1) : SubSeq(s, j, j + Len(old) - 1) = old}
    IN  IF at = {} THEN SubSeq(s, i, Len(s))
        ELSE LET j == CHOOSE k \in at : \A m \in at : k <= m
             IN  SubSeq(s, i, j - 1) \o new \o ReplaceAllFrom(s, old, new, j + Len(old))

\* strings.ReplaceAll for a non-empty old: leftmost, non-overlapping.
ReplaceAll(s, old, new) == Once(LAMBDA x : ReplaceAllFrom(x, old, new, 1), s)

\* Index of the first c in s, 0 when there is none (strings.Index + 1).
IndexOf(s, c) ==
    IF \E i \in 1..Len(s) : s[i] = c
    THEN CHOOSE i \in 1..Len(s) : s[i] = c /\ \A j \in 1..(i - 1) : s[j] # c
    ELSE 0

\* Index of the last c in s, 0 when there is none (strings.LastIndex + 1).
LastIndexOf(s, c) ==
    IF \E i \in 1..Len(s) : s[i] = c
    THEN CHOOSE i \in 1..Len(s) : s[i] = c /\ \A j \in (i + 1)..Len(s) : s[j] # c
    ELSE 0

\* strings.SplitN(s, sep, 2) for a one-character sep: one or two parts.
SplitN2(s, sep) ==
    Once(LAMBDA x : Once(LAMBDA i : IF i = 0 THEN <<x>>
                                    ELSE <<SubSeq(x, 1, i - 1), SubSeq(x, i + 1, Len(x))>>,
                         IndexOf(x, sep)),
         s)

RECURSIVE SplitFrom(_, _, _, _)
\* The parts of s from position i on, the part in progress starting at from.
SplitFrom(s, sep, from, i) ==
    IF i > Len(s) THEN <<SubSeq(s, from, Len(s))>>
    ELSE IF s[i] = sep
         THEN <<SubSeq(s, from, i - 1)>> \o SplitFrom(s, sep, i + 1, i + 1)
         ELSE SplitFrom(s, sep, from, i + 1)

\* strings.Split(s, sep) for a one-character sep: every part.
Split(s, sep) == Once(LAMBDA x : SplitFrom(x, sep, 1, 1), s)

\* stringutil.Reverse
Reverse(s) == [i \in 1..Len(s) |-> s[Len(s) + 1 - i]]

UpperChars == <<"A", "B", "C", "D", "E", "F", "G", "H", "I", "J", "K", "L", "M",
                "N", "O", "P", "Q", "R", "S", "T", "U", "V", "W", "X", "Y", "Z">>
LowerChars == <<"a", "b", "c", "d", "e", "f", "g", "h", "i", "j", "k", "l", "m",
                "n", "o", "p", "q", "r", "s", "t", "u", "v", "w", "x", "y", "z">>

LowerChar(c) ==
    IF \E i \in 1..Len(UpperChars) : UpperChars[i] = c
    THEN LowerChars[CHOOSE i \in 1..Len(UpperChars) : UpperChars[i] = c]
    ELSE c

\* strings.ToLower
ToLower(s) == Once(LAMBDA x : [i \in 1..Len(x) |-> LowerChar(x[i])], s)

DigitChars == <<"0", "1", "2", "3", "4", "5", "6", "7", "8", "9">>

IsDigit(c) == \E i \in 1..Len(DigitChars) : DigitChars[i] = c

DigitValue(c) == (CHOOSE i \in 1..Len(DigitChars) : DigitChars[i] = c) - 1

RECURSIVE DigitsValue(_)
DigitsValue(s) ==
    IF Len(s) = 0 THEN 0
    ELSE DigitsValue(SubSeq(s, 1, Len(s) - 1)) * 10 + DigitValue(s[Len(s)])

\* strconv.ParseInt(s, 10, 64): an optional sign, then at least one digit and
\* nothing but digits.  Values here stay far below the int64 range.
ParseIntOk(s) ==
    LET body == IF Len(s) > 0 /\ s[1] \in {"+", "-"} THEN SubSeq(s, 2, Len(s)) ELSE s
    IN  /\ Len(body) > 0
        /\ \A i \in 1..Len(body) : IsDigit(body[i])

ParseInt(s) ==
    LET neg  == Len(s) > 0 /\ s[1] = "-"
        body == IF Len(s) > 0 /\ s[1] \in {"+", "-"} THEN SubSeq(s, 2, Len(s)) ELSE s
    IN  IF neg THEN 0 - DigitsValue(body) ELSE DigitsValue(body)

RECURSIVE FormatNat(_)
FormatNat(n) ==
    IF n < 10 THEN <<DigitChars[n + 1]>>
    ELSE FormatNat(n \div 10) \o <<DigitChars[(n % 10) + 1]>>

\* fmt.Sprintf("%d", n)
FormatInt(n) == IF n < 0 THEN <<"-">> \o FormatNat(0 - n) ELSE FormatNat(n)

\* -------------------------------------------------------------------------
\* The repository tag schema (pkg/storage, repo stages storage)
\* -------------------------------------------------------------------------

RepoManagedImageRecord_ImageTagPrefix ==
    <<"m", "a", "n", "a", "g", "e", "d", "-", "i", "m", "a", "g", "e", "-">>

RepoImageMetadataByCommitRecord_ImageTagPrefix ==
    <<"i", "m", "a", "g", "e", "-", "m", "e", "t", "a", "d", "a", "t", "a", "-", "b", "y", "-", "c", "o", "m", "m", "i", "t", "-">>

RepoClientIDRecrod_ImageTagPrefix ==
    <<"c", "l", "i", "e", "n", "t", "-", "i", "d", "-">>

\* The reserved tag of the image without a name.
NamelessImageRecordTag ==
    <<"-", "n", "a", "m", "e", "l", "e", "s", "s", "-", "i", "m", "a", "g", "e", "-">>

UnexpectedTagFormatErrorPrefix == "unexpected tag format"

\* The cap on the length of a per-commit metadata tag.
MetadataTagMaxLen == 128

\* fmt.Sprintf("%s-%d", signature, uniqueID): the tag of a stage.
StageImageTag(signature, uniqueID) == signature \o <<"-">> \o FormatInt(uniqueID)

\* image.ParseUniqueIDAsTimestamp
ParseUniqueIDAsTimestampOk(s) == ParseIntOk(s)

\* Returns [err, signature, uniqueID]; err = "" on success.
getSignatureAndUniqueIDFromRepoStageImageTag(repoStageImageTag) ==
    Once(LAMBDA parts :
            IF Len(parts) # 2
            THEN [err |-> UnexpectedTagFormatErrorPrefix, signature |-> << >>, uniqueID |-> 0]
            ELSE IF ~ParseUniqueIDAsTimestampOk(parts[2])
                 THEN [err |-> UnexpectedTagFormatErrorPrefix,
                       signature |-> << >>, uniqueID |-> 0]
                 ELSE [err |-> "", signature |-> parts[1], uniqueID |-> ParseInt(parts[2])],
         SplitN2(repoStageImageTag, "-"))

isUnexpectedTagFormatError(err) == err = UnexpectedTagFormatErrorPrefix

slugImageNameAsDockerImageTag(imageName) ==
    IF imageName = << >> THEN NamelessImageRecordTag
    ELSE ReplaceAll(ReplaceAll(imageName, <<"/">>, <<"_", "_", "s", "l", "a", "s", "h", "_", "_">>),
                    <<"+">>, <<"_", "_", "p", "l", "u", "s", "_", "_">>)

unslugDockerImageTagAsImageName(tag) ==
    LET res == ReplaceAll(ReplaceAll(tag, <<"_", "_", "s", "l", "a", "s", "h", "_", "_">>, <<"/">>),
                          <<"_", "_", "p", "l", "u", "s", "_", "_">>, <<"+">>)
    IN  IF res = NamelessImageRecordTag THEN << >> ELSE res

\* The variant of validateImageName that refuses no name.
validateImageNameOkAnyCase(name) == TRUE

\* validateImageName(name) = nil
validateImageNameOk(name) == ToLower(name) = name

\* slug.LimitedSlug(data, limit): data cut to at most limit characters.  The
\* real one keeps a hash of the whole in the tail; the tail here is "~".
LimitedSlug(data, limit) ==
    IF Len(data) <= limit THEN data
    ELSE IF limit <= 0 THEN << >>
    ELSE SubSeq(data, 1, limit - 1) \o <<"~">>

\* fmt.Sprintf("image-metadata-by-commit-%s-%s", name, commit)
MetadataTagFormat(formattedImageName, commit) ==
    RepoImageMetadataByCommitRecord_ImageTagPrefix \o formattedImageName
        \o <<"-">> \o commit

\* The variant that shrinks the name slug by one character less than the excess.
slugImageMetadataByCommitImageRecordTagOffByOne(imageName, commit) ==
    LET formattedImageName == slugImageNameAsDockerImageTag(imageName)
        tag == MetadataTagFormat(formattedImageName, commit)
    IN  IF Len(tag) <= MetadataTagMaxLen THEN tag
        ELSE LET extraSize == Len(tag) - MetadataTagMaxLen - 1
                 shrunk == LimitedSlug(formattedImageName,
                                       Len(formattedImageName) - extraSize)
             IN  MetadataTagFormat(ReplaceAll(shrunk, <<"-">>, <<"_">>), commit)

slugImageMetadataByCommitImageRecordTag(imageName, commit) ==
    LET formattedImageName == slugImageNameAsDockerImageTag(imageName)
        tag == MetadataTagFormat(formattedImageName, commit)
    IN  IF Len(tag) <= MetadataTagMaxLen THEN tag
        ELSE LET extraSize == Len(tag) - MetadataTagMaxLen
                 shrunk == LimitedSlug(formattedImageName,
                                       Len(formattedImageName) - extraSize)
             IN  MetadataTagFormat(ReplaceAll(shrunk, <<"-">>, <<"_">>), commit)

slugRepoImageMetadataByCommitImageRecordTag(imageName, commit) ==
    slugImageMetadataByCommitImageRecordTag(imageName, commit)

\* The tag part of makeRepoManagedImageRecord.
makeRepoManagedImageRecord(imageName) ==
    RepoManagedImageRecord_ImageTagPrefix \o slugImageNameAsDockerImageTag(imageName)

\* The tag part of makeRepoImageMetadataByCommitImageRecord.
makeRepoImageMetadataByCommitImageRecord(imageName, commit) ==
    slugRepoImageMetadataByCommitImageRecordTag(imageName, commit)

\* ---- the enumerations, each over the list DockerRegistry.Tags returned ----

\* The variant that takes the unique id after the last '-' of any tag.
stageIDsOfTagSplitAtLast(tag) ==
    LET i == LastIndexOf(tag, "-")
    IN  IF i = 0 \/ ~ParseUniqueIDAsTimestampOk(SubSeq(tag, i + 1, Len(tag))) THEN << >>
        ELSE <<[Signature |-> SubSeq(tag, 1, i - 1),
                UniqueID |-> ParseInt(SubSeq(tag, i + 1, Len(tag)))]>>

\* What the loop of GetAllStages makes of one tag: the StageID, or nothing.
stageIDsOfTag(tag) ==
    IF \/ HasPrefix(tag, RepoManagedImageRecord_ImageTagPrefix)
       \/ HasPrefix(tag, RepoImageMetadataByCommitRecord_ImageTagPrefix)
    THEN << >>
    ELSE Once(LAMBDA r : IF r.err # "" THEN << >>
                         ELSE <<[Signature |-> r.signature, UniqueID |-> r.uniqueID]>>,
              getSignatureAndUniqueIDFromRepoStageImageTag(tag))

RECURSIVE GetAllStagesFrom(_, _)
GetAllStagesFrom(tags, i) ==
    IF i > Len(tags) THEN << >>
    ELSE stageIDsOfTag(tags[i]) \o GetAllStagesFrom(tags, i + 1)

\* The StageIDs of the tags, in tag-list order.
GetAllStages(tags) == Once(LAMBDA x : GetAllStagesFrom(x, 1), tags)

\* What the loop of GetStagesBySignature makes of one tag: a StageID under
\* the signature asked for, or nothing.
stageIDsBySignatureOfTag(tag, signature) ==
    IF ~HasPrefix(tag, signature) THEN << >>
    ELSE Once(LAMBDA r : IF r.err # "" THEN << >>
                         ELSE <<[Signature |-> signature, UniqueID |-> r.uniqueID]>>,
              getSignatureAndUniqueIDFromRepoStageImageTag(tag))

RECURSIVE GetStagesBySignatureFrom(_, _, _)
GetStagesBySignatureFrom(tags, signature, i) ==
    IF i > Len(tags) THEN << >>
    ELSE stageIDsBySignatureOfTag(tags[i], signature)
             \o GetStagesBySignatureFrom(tags, signature, i + 1)

\* The StageIDs of the tags selected for the signature, in tag-list order.
GetStagesBySignature(tags, signature) ==
    Once(LAMBDA x : GetStagesBySignatureFrom(x, signature, 1), tags)

RECURSIVE GetManagedImages(_)
\* The image names of the managed-image records, in tag-list order.
GetManagedImages(tags) ==
    IF Len(tags) = 0 THEN << >>
    ELSE LET tag == Head(tags)
             rest == GetManagedImages(Tail(tags))
             managedImageName == unslugDockerImageTagAsImageName(
                 TrimPrefix(tag, RepoManagedImageRecord_ImageTagPrefix))
         IN  IF ~HasPrefix(tag, RepoManagedImageRecord_ImageTagPrefix) THEN rest
             ELSE IF ~validateImageNameOk(managedImageName) THEN rest
             ELSE <<managedImageName>> \o rest

RECURSIVE GetImageCommits(_, _)
\* The commits that have a metadata record of imageName, in tag-list order.
GetImageCommits(tags, imageName) ==
    IF Len(tags) = 0 THEN << >>
    ELSE LET tag == Head(tags)
             rest == GetImageCommits(Tail(tags), imageName)
             sluggedImageAndCommit ==
                 TrimPrefix(tag, RepoImageMetadataByCommitRecord_ImageTagPrefix)
             parts == Split(sluggedImageAndCommit, "-")
             commit == parts[Len(parts)]
         IN  IF ~HasPrefix(tag, RepoImageMetadataByCommitRecord_ImageTagPrefix)
             THEN rest
             ELSE IF Len(parts) < 2 THEN rest
             ELSE IF slugRepoImageMetadataByCommitImageRecordTag(imageName, commit) = tag
                  THEN <<commit>> \o rest
                  ELSE rest

\* -------------------------------------------------------------------------
\* Labels, git hashes and slugs
\* -------------------------------------------------------------------------

\* A labels map is a set of <<key, value>> pairs with one pair per key.
LabelOk(labels, key) == \E kv \in labels : kv[1] = key

\* labels[key]: the value, "" when the key is absent (a Go map read).
LabelGet(labels, key) ==
    IF LabelOk(labels, key) THEN (CHOOSE kv \in labels : kv[1] = key)[2] ELSE ""

WerfTagStrategyLabel == "werf-tag-strategy"
WerfImageTagLabel == "werf-image-tag"
WerfContentSignatureLabel == "werf-content-signature"
ContentSignatureLabel == "ContentSignature"

GitTag == "git-tag"
GitBranch == "git-branch"
GitCommit == "git-commit"
StagesSignature == "stages-signature"
Custom == "custom"

Min(a, b) == IF a <= b THEN a ELSE b
Max(a, b) == IF a >= b THEN a ELSE b

IsHex(c) ==
    \/ IsDigit(c)
    \/ c \in {"a", "b", "c", "d", "e", "f", "A", "B", "C", "D", "E", "F"}

RECURSIVE ValidHexPairs(_)
\* The length of the longest prefix of s made of whole pairs of hex digits:
\* what hex.DecodeString decodes before it stops.
ValidHexPairs(s) ==
    IF Len(s) >= 2 /\ IsHex(s[1]) /\ IsHex(s[2])
    THEN 2 + ValidHexPairs(SubSeq(s, 3, Len(s)))
    ELSE 0

\* The zero hash; a hash has 40 hex digits in git and as many as this one here.
ZeroHashString == <<"0", "0">>

\* plumbing.NewHash(s).String(): the decoded bytes, cut or zero-padded to the
\* hash width, printed in lower-case hex.
NewHash(s) ==
    LET n == Min(ValidHexPairs(s), Len(ZeroHashString))
    IN  ToLower(SubSeq(s, 1, n)) \o SubSeq(ZeroHashString, n + 1, Len(ZeroHashString))

IsDockerTagChar(c) ==
    \/ IsDigit(c)
    \/ \E i \in 1..Len(LowerChars) : LowerChars[i] = c \/ UpperChars[i] = c
    \/ c \in {"_", ".", "-"}

\* slug.DockerTag(name): a valid docker tag is kept as it is; any other name is
\* lower-cased, its invalid characters become "-", and a hash of the name is
\* appended (the hash here is "h").
DockerTag(name) ==
    IF /\ Len(name) > 0
       /\ \A i \in 1..Len(name) : IsDockerTagChar(name[i])
       /\ name[1] \notin {".", "-"}
    THEN name
    ELSE [i \in 1..Len(name) |->
             IF IsDockerTagChar(name[i]) THEN LowerChar(name[i]) ELSE "-"]
         \o <<"-", "h">>

\* repoImageMetaTagMatch(imageMetaTag, matches...)
repoImageMetaTagMatch(imageMetaTag, matches) ==
    \E match \in matches : imageMetaTag = SeqOfStr(DockerTag(match), 1)

\* -------------------------------------------------------------------------
\* The repositories and the environment of a run
\* -------------------------------------------------------------------------

NameA == <<"a">>
NameB == <<"b", "/", "x">>

\* options.ImageNameList: the image names of werf.yaml.
ImageNameList == <<NameA, NameB>>
ImageNames == {ImageNameList[i] : i \in 1..Len(ImageNameList)}

CommitC1 == <<"c", "1">>
CommitC2 == <<"c", "2">>
CommitC3 == <<"c", "3">>

\* The commits a repository's history may hold, oldest first.
AllCommits == <<CommitC1, CommitC2, CommitC3>>

\* The published images of the images repo (image.Info), by image id.  An id
\* stands for the *image.Info pointer the code passes around.
RepoImageTable == <<
    [imageName |-> NameA, Repository |-> "reg/a", Tag |-> "v1", CreatedAt |-> 1,
     Labels |-> {<<WerfTagStrategyLabel, GitTag>>, <<WerfImageTagLabel, "v1">>,
                 <<WerfContentSignatureLabel, "sigA">>}],
    [imageName |-> NameA, Repository |-> "reg/a", Tag |-> "v2", CreatedAt |-> 2,
     Labels |-> {<<WerfTagStrategyLabel, GitTag>>,
                 <<WerfContentSignatureLabel, "sigA">>}],
    [imageName |-> NameA, Repository |-> "reg/a", Tag |-> "commit-1", CreatedAt |-> 1,
     Labels |-> {<<WerfTagStrategyLabel, GitCommit>>, <<WerfImageTagLabel, "c1">>,
                 <<WerfContentSignatureLabel, "sigB">>}],
    [imageName |-> NameA, Repository |-> "reg/a", Tag |-> "c2", CreatedAt |-> 1,
     Labels |-> {<<WerfTagStrategyLabel, GitCommit>>,
                 <<WerfContentSignatureLabel, "sigC">>}],
    [imageName |-> NameA, Repository |-> "reg/a", Tag |-> "commit-3", CreatedAt |-> 3,
     Labels |-> {<<WerfTagStrategyLabel, GitCommit>>, <<WerfImageTagLabel, "c3">>}],
    [imageName |-> NameB, Repository |-> "reg/b/x", Tag |-> "f-x-h", CreatedAt |-> 0,
     Labels |-> {<<WerfTagStrategyLabel, GitBranch>>, <<WerfImageTagLabel, "f-x-h">>,
                 <<WerfContentSignatureLabel, "sigA">>}],
    [imageName |-> NameB, Repository |-> "reg/b/x", Tag |-> "sig-2", CreatedAt |-> 2,
     Labels |-> {<<WerfTagStrategyLabel, StagesSignature>>,
                 <<WerfContentSignatureLabel, "sigD">>}],
    [imageName |-> NameB, Repository |-> "reg/b/x", Tag |-> "sig-1", CreatedAt |-> 1,
     Labels |-> {<<WerfTagStrategyLabel, StagesSignature>>,
                 <<WerfContentSignatureLabel, "sigB">>}],
    [imageName |-> NameB, Repository |-> "reg/b/x", Tag |-> "latest", CreatedAt |-> 0,
     Labels |-> {<<WerfTagStrategyLabel, Custom>>}],
    [imageName |-> NameB, Repository |-> "reg/b/x", Tag |-> "old", CreatedAt |-> 0,
     Labels |-> {<<WerfContentSignatureLabel, "sigD">>}]
>>

ImageIds == DOMAIN RepoImageTable

Info(i) == RepoImageTable[i]

\* fmt.Sprintf("%s:%s", repoImage.Repository, repoImage.Tag)
dockerImageName(i) == Info(i).Repository \o ":" \o Info(i).Tag

\* The workload kinds the Kubernetes probe lists, in the order it lists them.
WorkloadKinds == <<"Pods", "ReplicationControllers", "Deployments", "StatefulSets",
                   "DaemonSets", "ReplicaSets", "CronJobs", "Jobs">>

\* No process, for a lock nobody holds.
NoProc == "none"

\* The invocations.
Procs == {"p1", "p2"}

\* The host locks, by the operation that names them.
HostLockNames == {"images-cleanup", "images-purge", "stages-purge"}

VARIABLES
    imagesRepo,   \* the ids of the images in the images repo
    stagesRepo,   \* the stages storage repo: a list of [tag, hasLabels, labels]
    env,          \* the cluster, the local git repository and the clock
    dlock,        \* how each invocation holds the project's stages-and-images lock
    hostLock,     \* the holder of each host lock
    kind,         \* per invocation: "cleanup", "stagesPurge", "purge" or "idle"
    opts,         \* per invocation: its options
    pc,           \* per invocation: where it is
    loc,          \* per invocation: the manager's fields and the locals of run
    log           \* per invocation: the registry calls and delete batches so far

vars == <<imagesRepo, stagesRepo, env, dlock, hostLock, kind, opts, pc, loc, log>>

\* DockerRegistry.Tags: the tag list of the stages storage repo.
Tags(repo) == [i \in 1..Len(repo) |-> repo[i].tag]

\* The index of tag in the repo, 0 when absent.
TagIndex(repo, tag) ==
    IF \E i \in 1..Len(repo) : repo[i].tag = tag
    THEN CHOOSE i \in 1..Len(repo) : repo[i].tag = tag
    ELSE 0

\* DockerRegistry.TryGetRepoImage(ref) # nil
TagExists(repo, tag) == TagIndex(repo, tag) # 0

\* DockerRegistry.DeleteRepoImage: the repo without the tag.
RemoveTag(repo, tag) ==
    LET k == TagIndex(repo, tag)
    IN  IF k = 0 THEN repo
        ELSE SubSeq(repo, 1, k - 1) \o SubSeq(repo, k + 1, Len(repo))

RECURSIVE SetToSeq(_)
\* Some list of the elements of a set (the order stands for no order).
SetToSeq(S) ==
    IF S = {} THEN << >>
    ELSE LET x == CHOOSE x \in S : TRUE IN <<x>> \o SetToSeq(S \ {x})

Range(s) == {s[i] : i \in 1..Len(s)}

\* -------------------------------------------------------------------------
\* The images cleanup (pkg/cleaning): the passes as functions of their inputs
\* -------------------------------------------------------------------------

\* One entry of an invocation's log.  op "list": a registry listing; op
\* "delete": a list of images passed to deleteRepoImageInImagesRepo; op "rm":
\* a record or stage removal; op "except": the images in use in Kubernetes were
\* set apart.  issued: registry delete calls were made; locked: the invocation
\* held the stages-and-images lock at that moment.
LogEntry(op, phase, name, imgs, tags, issued, locked) ==
    [op |-> op, phase |-> phase, name |-> name, imgs |-> imgs, tags |-> tags,
     issued |-> issued, locked |-> locked]

\* exceptRepoImageList(repoImageList, repoImagesToExclude...)
exceptRepoImageList(repoImageList, repoImagesToExclude) ==
    repoImageList \ repoImagesToExclude

RECURSIVE ConcatKinds(_, _)
ConcatKinds(client, k) ==
    IF k > Len(WorkloadKinds) THEN << >>
    ELSE client[WorkloadKinds[k]] \o ConcatKinds(client, k + 1)

\* deployedDockerImages(kubernetesClient): the container images of the eight
\* kinds, appended kind after kind.
deployedDockerImages(client) == ConcatKinds(client, 1)

RECURSIVE ConcatContexts(_, _)
ConcatContexts(clients, ctxs) ==
    IF Len(ctxs) = 0 THEN << >>
    ELSE deployedDockerImages(clients[Head(ctxs)]) \o ConcatContexts(clients, Tail(ctxs))

\* getDeployedDockerImagesNames(kubernetesContextsClients)
getDeployedDockerImagesNames(clients) ==
    ConcatContexts(clients, SetToSeq(DOMAIN clients))

\* The first kind, in the order deployedDockerImages lists them, whose listing
\* is among the failed ones.
firstFailedKind(failedKinds) ==
    WorkloadKinds[CHOOSE k \in 1..Len(WorkloadKinds) :
                      /\ WorkloadKinds[k] \in failedKinds
                      /\ \A j \in 1..(k - 1) : WorkloadKinds[j] \notin failedKinds]

\* The error of deployedDockerImages naming Pods whatever the kind whose
\* listing has failed.
deployedDockerImagesErrNamingPods(failedKinds) ==
    IF failedKinds = {} THEN ""
    ELSE "cannot get Pods images: list failed"

\* The error of deployedDockerImages(kubernetesClient) when the listings of
\* failedKinds fail for the client: the first failure is returned under the
\* name of its kind; "" when no listing fails.
deployedDockerImagesErr(failedKinds) ==
    IF failedKinds = {} THEN ""
    ELSE "cannot get " \o firstFailedKind(failedKinds) \o " images: list failed"

\* The error of getDeployedDockerImagesNames when the client of a context
\* returns err.
getDeployedDockerImagesNamesErr(err) ==
    IF err = "" THEN "" ELSE "cannot get deployed imagesRepoImageList: " \o err

\* exceptRepoImagesByWhitelist without its "continue Loop": a deployed image is
\* recorded as excepted and stays in the list to clean up all the same.
exceptRepoImagesByWhitelistNoContinue(repoImages, clients) ==
    LET deployed == Range(getDeployedDockerImagesNames(clients))
        hit(n) == {i \in repoImages[n] : dockerImageName(i) \in deployed}
    IN  [repoImages |-> repoImages,
         exceptedRepoImages |->
             [n \in {m \in DOMAIN repoImages : hit(m) # {}} |-> hit(n)]]

\* exceptRepoImagesByWhitelist that sets the deployed images apart and does
\* not hand them back.
exceptRepoImagesByWhitelistDroppingExcepted(repoImages, clients) ==
    LET deployed == Range(getDeployedDockerImagesNames(clients))
        hit(n) == {i \in repoImages[n] : dockerImageName(i) \in deployed}
    IN  [repoImages |-> [n \in DOMAIN repoImages |-> repoImages[n] \ hit(n)],
         exceptedRepoImages |-> [n \in {} |-> {}]]

\* exceptRepoImagesByWhitelist: [repoImages, exceptedRepoImages].  An image
\* name is a key of exceptedRepoImages only when one of its images is deployed.
exceptRepoImagesByWhitelist(repoImages, clients) ==
    LET deployed == Range(getDeployedDockerImagesNames(clients))
        hit(n) == {i \in repoImages[n] : dockerImageName(i) \in deployed}
    IN  [repoImages |-> [n \in DOMAIN repoImages |-> repoImages[n] \ hit(n)],
         exceptedRepoImages |->
             [n \in {m \in DOMAIN repoImages : hit(m) # {}} |-> hit(n)]]

\* GitRepo.IsCommitExists(commit) against the local git repository e:
\* [exist, err].  A string that names no commit object is a bad commit hash.
IsCommitExists(e, commit) ==
    LET st == IF commit \in DOMAIN e.commitState THEN e.commitState[commit] ELSE "bad"
    IN  CASE st = "exists"  -> [exist |-> TRUE, err |-> ""]
          [] st = "missing" -> [exist |-> FALSE, err |-> ""]
          [] st = "bad"     -> [exist |-> FALSE, err |-> "bad commit hash"]
          [] OTHER          -> [exist |-> FALSE, err |-> "git failed"]

\* deleteRepoImageInImagesRepo(ctx, imagesRepo, dryRun, repoImageList...): every
\* image of the list is tried; [err, removed].
deleteRepoImageInImagesRepo(dryRun, repoImageList, undeletable) ==
    IF dryRun THEN [err |-> "", removed |-> {}]
    ELSE [err |-> IF repoImageList \cap undeletable # {}
                  THEN "image deletion failed" ELSE "",
          removed |-> repoImageList \ undeletable]

Batch(phase, imgs, panics) == [phase |-> phase, imgs |-> imgs, panics |-> panics]

RECURSIVE RunBatchesDryRunKeepsState(_, _, _)
\* The delete batches of a pass with a dry run leaving its lists as they are:
\* under DryRun the images of a batch are not taken out of the list.
RunBatchesDryRunKeepsState(batches, dryRun, undeletable) ==
    IF Len(batches) = 0
    THEN [err |-> "", done |-> << >>, removed |-> {}, passed |-> {}]
    ELSE LET b == Head(batches)
             r == deleteRepoImageInImagesRepo(dryRun, b.imgs, undeletable)
             rest == RunBatchesDryRunKeepsState(Tail(batches), dryRun, undeletable)
         IN  IF b.panics \/ r.err # ""
             THEN [err |-> IF b.panics THEN "panic" ELSE r.err, done |-> <<b>>,
                   removed |-> r.removed, passed |-> {}]
             ELSE [err |-> rest.err, done |-> <<b>> \o rest.done,
                   removed |-> r.removed \cup rest.removed,
                   passed |-> (IF dryRun THEN {} ELSE b.imgs) \cup rest.passed]

RECURSIVE RunBatches(_, _, _)
\* The delete batches of a pass, one after the other, up to the first that
\* fails: [err, done, removed, passed].
RunBatches(batches, dryRun, undeletable) ==
    IF Len(batches) = 0
    THEN [err |-> "", done |-> << >>, removed |-> {}, passed |-> {}]
    ELSE LET b == Head(batches)
             r == deleteRepoImageInImagesRepo(dryRun, b.imgs, undeletable)
             rest == RunBatches(Tail(batches), dryRun, undeletable)
         IN  IF b.panics \/ r.err # ""
             THEN [err |-> IF b.panics THEN "panic" ELSE r.err, done |-> <<b>>,
                   removed |-> r.removed, passed |-> {}]
             ELSE [err |-> rest.err, done |-> <<b>> \o rest.done,
                   removed |-> r.removed \cup rest.removed,
                   passed |-> b.imgs \cup rest.passed]

strategyOk(i) == LabelOk(Info(i).Labels, WerfTagStrategyLabel)
strategyOf(i) == LabelGet(Info(i).Labels, WerfTagStrategyLabel)

\* repoImageMetaTag: the WerfImageTag label, or the tag when there is none.
repoImageMetaTag(i) ==
    IF LabelOk(Info(i).Labels, WerfImageTagLabel)
    THEN LabelGet(Info(i).Labels, WerfImageTagLabel)
    ELSE Info(i).Tag

\* The loop of repoImagesCleanupByNonexistentGitPrimitive taking a commit
\* whose existence check fails with "bad commit hash" for an existing one.
nonexistentGitPrimitiveBatchesBadHashExists(repoImages, o, e, gitTags, gitBranches) ==
    LET withStrategy(st) == {i \in repoImages : strategyOk(i) /\ strategyOf(i) = st}
        check(i) == IF o.LocalGitNil THEN [exist |-> FALSE, err |-> ""]
                    ELSE IsCommitExists(e, repoImageMetaTag(i))
        nonexistentGitTagRepoImages ==
            {i \in withStrategy(GitTag) : ~repoImageMetaTagMatch(repoImageMetaTag(i), gitTags)}
        nonexistentGitBranchRepoImages ==
            {i \in withStrategy(GitBranch) :
                ~repoImageMetaTagMatch(repoImageMetaTag(i), gitBranches)}
        nonexistentGitCommitRepoImages ==
            {i \in withStrategy(GitCommit) :
                ~check(i).exist /\ check(i).err # "bad commit hash"}
        failed == \E i \in withStrategy(GitCommit) :
                      check(i).err # "" /\ check(i).err # "bad commit hash"
        all == <<Batch("nonexistent-git-tag", nonexistentGitTagRepoImages, FALSE),
                 Batch("nonexistent-git-branch", nonexistentGitBranchRepoImages, FALSE),
                 Batch("nonexistent-git-commit", nonexistentGitCommitRepoImages, FALSE)>>
    IN  [err |-> IF failed THEN "git failed" ELSE "",
         batches |-> SelectSeq(all, LAMBDA b : b.imgs # {})]

\* The loop of repoImagesCleanupByNonexistentGitPrimitive going on after a
\* commit-existence error that is no bad commit hash.
nonexistentGitPrimitiveBatchesIgnoringErrors(repoImages, o, e, gitTags, gitBranches) ==
    LET withStrategy(st) == {i \in repoImages : strategyOk(i) /\ strategyOf(i) = st}
        check(i) == IF o.LocalGitNil THEN [exist |-> FALSE, err |-> ""]
                    ELSE IsCommitExists(e, repoImageMetaTag(i))
        nonexistentGitTagRepoImages ==
            {i \in withStrategy(GitTag) : ~repoImageMetaTagMatch(repoImageMetaTag(i), gitTags)}
        nonexistentGitBranchRepoImages ==
            {i \in withStrategy(GitBranch) :
                ~repoImageMetaTagMatch(repoImageMetaTag(i), gitBranches)}
        nonexistentGitCommitRepoImages ==
            {i \in withStrategy(GitCommit) : ~check(i).exist}
        all == <<Batch("nonexistent-git-tag", nonexistentGitTagRepoImages, FALSE),
                 Batch("nonexistent-git-branch", nonexistentGitBranchRepoImages, FALSE),
                 Batch("nonexistent-git-commit", nonexistentGitCommitRepoImages, FALSE)>>
    IN  [err |-> "", batches |-> SelectSeq(all, LAMBDA b : b.imgs # {})]

\* What the loop of repoImagesCleanupByNonexistentGitPrimitive collects:
\* [err, batches].  err is the commit-existence error that is no bad commit
\* hash, returned from inside the loop, before any delete.
nonexistentGitPrimitiveBatches(repoImages, o, e, gitTags, gitBranches) ==
    LET withStrategy(st) == {i \in repoImages : strategyOk(i) /\ strategyOf(i) = st}
        check(i) == IF o.LocalGitNil THEN [exist |-> FALSE, err |-> ""]
                    ELSE IsCommitExists(e, repoImageMetaTag(i))
        nonexistentGitTagRepoImages ==
            {i \in withStrategy(GitTag) : ~repoImageMetaTagMatch(repoImageMetaTag(i), gitTags)}
        nonexistentGitBranchRepoImages ==
            {i \in withStrategy(GitBranch) :
                ~repoImageMetaTagMatch(repoImageMetaTag(i), gitBranches)}
        nonexistentGitCommitRepoImages ==
            {i \in withStrategy(GitCommit) : ~check(i).exist}
        failed == \E i \in withStrategy(GitCommit) :
                      check(i).err # "" /\ check(i).err # "bad commit hash"
        all == <<Batch("nonexistent-git-tag", nonexistentGitTagRepoImages, FALSE),
                 Batch("nonexistent-git-branch", nonexistentGitBranchRepoImages, FALSE),
                 Batch("nonexistent-git-commit", nonexistentGitCommitRepoImages, FALSE)>>
    IN  [err |-> IF failed THEN "git failed" ELSE "",
         batches |-> SelectSeq(all, LAMBDA b : b.imgs # {})]

\* The capacity of a slice grown from nil by n appends of one element.
RECURSIVE AppendCap(_)
AppendCap(n) == IF n <= 1 THEN n ELSE 2 * AppendCap((n + 1) \div 2)

\* The orders sort.Slice may leave the images in: ascending by CreatedAt, equal
\* times in any order.
SortedOrders(S) ==
    {ord \in [1..Cardinality(S) -> S] :
        /\ \A i, j \in 1..Cardinality(S) : i < j =>
               /\ ord[i] # ord[j]
               /\ Info(ord[i]).CreatedAt <= Info(ord[j]).CreatedAt}

\* repoImagesCleanupByPolicy: the delete batches of one strategy's policy, for
\* the images of that strategy in sorted order.
repoImagesCleanupByPolicy(repoImagesWithScheme, options, now) ==
    LET expiryTime == now - options.expiryPeriod
        isExpired(i) == options.hasExpiryPeriod /\ Info(i).CreatedAt < expiryTime
        expiredRepoImages == SelectSeq(repoImagesWithScheme, isExpired)
        notExpiredRepoImages == SelectSeq(repoImagesWithScheme, LAMBDA i : ~isExpired(i))
        n == Len(notExpiredRepoImages)
        expiredBatch ==
            IF Len(expiredRepoImages) # 0
            THEN <<Batch(options.schemeName \o " date policy",
                         Range(expiredRepoImages), FALSE)>>
            ELSE << >>
        limitBatch ==
            IF options.hasLimit /\ n > options.limit
            THEN IF n - options.limit <= n
                 THEN <<Batch(options.schemeName \o " limit policy",
                              Range(SubSeq(notExpiredRepoImages, 1, n - options.limit)),
                              FALSE)>>
                 ELSE \* the slice expression reaches past the list
                      IF n - options.limit <= AppendCap(n)
                      THEN <<Batch(options.schemeName \o " limit policy",
                                   Range(notExpiredRepoImages), TRUE)>>
                      ELSE <<Batch(options.schemeName \o " limit policy", {}, TRUE)>>
            ELSE << >>
    IN  expiredBatch \o limitBatch

GitTagPolicyOptions(policies) ==
    [hasLimit |-> policies.GitTagStrategyHasLimit,
     limit |-> policies.GitTagStrategyLimit,
     hasExpiryPeriod |-> policies.GitTagStrategyHasExpiryPeriod,
     expiryPeriod |-> policies.GitTagStrategyExpiryPeriod,
     schemeName |-> GitTag]

GitCommitPolicyOptions(policies) ==
    [hasLimit |-> policies.GitCommitStrategyHasLimit,
     limit |-> policies.GitCommitStrategyLimit,
     hasExpiryPeriod |-> policies.GitCommitStrategyHasExpiryPeriod,
     expiryPeriod |-> policies.GitCommitStrategyExpiryPeriod,
     schemeName |-> GitCommit]

StagesSignaturePolicyOptions(policies) ==
    [hasLimit |-> policies.StagesSignatureStrategyHasLimit,
     limit |-> policies.StagesSignatureStrategyLimit,
     hasExpiryPeriod |-> policies.StagesSignatureStrategyHasExpiryPeriod,
     expiryPeriod |-> policies.StagesSignatureStrategyExpiryPeriod,
     schemeName |-> StagesSignature]

\* The images of ord with strategy st, an image without a tag-strategy label
\* taken for one of every strategy.
WithSchemeOrUnlabelled(ord, st) ==
    SelectSeq(ord, LAMBDA i : ~strategyOk(i) \/ strategyOf(i) = st)

\* The images of ord (a sorted order of all the images) with strategy st.
WithScheme(ord, st) == SelectSeq(ord, LAMBDA i : strategyOk(i) /\ strategyOf(i) = st)

\* repoImagesCleanupByPolicies: the delete batches of the three policies, in
\* the order git-tag, git-commit, stages-signature.
repoImagesCleanupByPolicies(ord, policies, now) ==
    repoImagesCleanupByPolicy(WithScheme(ord, GitTag), GitTagPolicyOptions(policies), now)
    \o repoImagesCleanupByPolicy(WithScheme(ord, GitCommit),
                                 GitCommitPolicyOptions(policies), now)
    \o repoImagesCleanupByPolicy(WithScheme(ord, StagesSignature),
                                 StagesSignaturePolicyOptions(policies), now)

\* ---- git-history-based cleanup ----

contentSignatureOf(i) == LabelGet(Info(i).Labels, WerfContentSignatureLabel)

\* GetImageMetadataByCommit(imageName, commit): [found, ContentSignature];
\* found is FALSE for the nil result.
GetImageMetadataByCommit(repo, imageName, commit) ==
    LET k == TagIndex(repo, makeRepoImageMetadataByCommitImageRecord(imageName, commit))
    IN  IF k # 0 /\ repo[k].hasLabels
        THEN [found |-> TRUE,
              ContentSignature |-> LabelGet(repo[k].labels, ContentSignatureLabel)]
        ELSE [found |-> FALSE, ContentSignature |-> ""]

RECURSIVE commitImageMetadata(_, _, _, _)
\* The inner loop of initImageCommitHashImageMetadata: the map from
\* plumbing.NewHash(commit) to the content signature, a later commit of the
\* list replacing an earlier one with the same hash.
commitImageMetadata(repo, imageName, commits, acc) ==
    IF Len(commits) = 0 THEN acc
    ELSE LET commit == Head(commits)
             md == GetImageMetadataByCommit(repo, imageName, commit)
             h == NewHash(commit)
             next == IF md.found
                     THEN [x \in DOMAIN acc \cup {h} |->
                              IF x = h THEN md.ContentSignature ELSE acc[x]]
                     ELSE acc
         IN  commitImageMetadata(repo, imageName, Tail(commits), next)

\* initImageCommitHashImageMetadata: image name -> commit hash -> signature.
initImageCommitHashImageMetadata(repo) ==
    [n \in ImageNames |->
        commitImageMetadata(repo, n, GetImageCommits(Tags(repo), n), << >>)]

\* getImageContentSignatureRepoImageListToCleanup: every content signature of
\* the image's metadata, with the images to clean up that carry it.
getImageContentSignatureRepoImageListToCleanup(repoImagesToCleanup, metadata) ==
    [n \in DOMAIN repoImagesToCleanup |->
        LET md == IF n \in DOMAIN metadata THEN metadata[n] ELSE << >>
        IN  [sig \in {md[h] : h \in DOMAIN md} |->
                {i \in repoImagesToCleanup[n] : contentSignatureOf(i) = sig}]]

\* getImageContentSignatureExistingCommitHashes: [err, value]; value maps an
\* image name and a content signature to the metadata commits that exist in
\* the local git repository, with no key for a signature that has none.
getImageContentSignatureExistingCommitHashes(e, metadata) ==
    LET res(h) == IsCommitExists(e, SeqOfStr(h, 1))
        existing(n, sig) ==
            {h \in DOMAIN metadata[n] : metadata[n][h] = sig /\ res(h).exist}
    IN  [err |-> IF \E n \in ImageNames : \E h \in DOMAIN metadata[n] : res(h).err # ""
                 THEN "check git commit existence failed" ELSE "",
         value |-> [n \in ImageNames |->
                      [sig \in {s \in {metadata[n][h] : h \in DOMAIN metadata[n]} :
                                    existing(n, s) # {}} |-> existing(n, sig)]]]

\* getImageRepoImageListWithoutRelatedImageMetadata finding every image
\* related to some metadata: no image is set apart.
getImageRepoImageListWithoutRelatedImageMetadataNone(imageRepoImageListToCleanup, groups) ==
    [n \in DOMAIN imageRepoImageListToCleanup |-> {}]

\* getImageRepoImageListWithoutRelatedImageMetadata
getImageRepoImageListWithoutRelatedImageMetadata(imageRepoImageListToCleanup, groups) ==
    [n \in DOMAIN imageRepoImageListToCleanup |->
        LET g == IF n \in DOMAIN groups THEN groups[n] ELSE << >>
        IN  exceptRepoImageList(imageRepoImageListToCleanup[n],
                                UNION {g[sig] : sig \in DOMAIN g})]

\* m[key] of a Go map of lists: the empty list when the key is absent.
MapGet(m, key) == IF key \in DOMAIN m THEN m[key] ELSE {}

\* m[key] = value
MapSet(m, key, value) == [k \in DOMAIN m \cup {key} |-> IF k = key THEN value ELSE m[k]]

\* m[key] = append(m[key], more...)
MapAppend(m, key, more) ==
    [k \in DOMAIN m \cup {key} |-> IF k = key THEN MapGet(m, key) \cup more ELSE m[k]]

\* The history of the local git repository: the commits that exist, oldest
\* first, each the parent of the next.
GitChain(e) ==
    SelectSeq(AllCommits, LAMBDA c : IsCommitExists(e, SeqOfStr(c, 1)).exist)

\* getReferencesToScan: the configured references whose head exists.
getReferencesToScan(e) ==
    {r \in e.refs : \E k \in 1..Len(GitChain(e)) : GitChain(e)[k] = r.head}

\* scanReferencesHistory: the content signatures one of whose commits is among
\* the first limit commits of a reference's history, newest first.
scanReferencesHistory(e, referencesToScan, contentSignatureCommitHashes) ==
    LET chain == GitChain(e)
        headIdx(r) == CHOOSE k \in 1..Len(chain) : chain[k] = r.head
        walked(r) == {chain[k] : k \in Max(1, headIdx(r) - r.limit + 1)..headIdx(r)}
    IN  {sig \in DOMAIN contentSignatureCommitHashes :
            \E r \in referencesToScan :
                walked(r) \cap contentSignatureCommitHashes[sig] # {}}

\* The body of the loop handing the scan the existing commits of every image
\* name, not those of the signatures of imageName only.
gitHistoryBasedCleanupOfImageSeekingEveryName(e, imageName, repoImageListToCleanup, groups, existing, refs) ==
    LET g == groups[imageName]
        sigs == UNION {DOMAIN existing[n] : n \in DOMAIN existing}
        contentSignatureCommitHashes ==
            [sig \in sigs |-> UNION {MapGet(existing[n], sig) : n \in DOMAIN existing}]
        reached == scanReferencesHistory(e, refs, contentSignatureCommitHashes)
        repoImageListToKeep ==
            IF sigs # {} THEN UNION {g[sig] : sig \in reached \cap DOMAIN g} ELSE {}
    IN  [err |-> IF sigs # {} /\ ~(reached \subseteq DOMAIN g) THEN "panic" ELSE "",
         scanned |-> sigs # {},
         reached |-> IF sigs # {} THEN reached ELSE {},
         keep |-> repoImageListToKeep,
         delete |-> exceptRepoImageList(repoImageListToCleanup, repoImageListToKeep)]

\* The body of the loop with the arguments of its exceptRepoImageList call
\* exchanged: the images to delete are those to keep less those to clean up.
gitHistoryBasedCleanupOfImageSwapped(e, imageName, repoImageListToCleanup, groups, existing, refs) ==
    LET g == groups[imageName]
        contentSignatureCommitHashes ==
            [sig \in {s \in DOMAIN g : MapGet(existing[imageName], s) # {}} |->
                existing[imageName][sig]]
        reached == scanReferencesHistory(e, refs, contentSignatureCommitHashes)
        repoImageListToKeep ==
            IF DOMAIN contentSignatureCommitHashes # {}
            THEN UNION {g[sig] : sig \in reached \cap DOMAIN g}
            ELSE {}
    IN  [err |-> IF DOMAIN contentSignatureCommitHashes # {} /\ ~(reached \subseteq DOMAIN g)
                 THEN "panic" ELSE "",
         scanned |-> DOMAIN contentSignatureCommitHashes # {},
         reached |-> IF DOMAIN contentSignatureCommitHashes # {} THEN reached ELSE {},
         keep |-> repoImageListToKeep,
         delete |-> exceptRepoImageList(repoImageListToKeep, repoImageListToCleanup)]

\* The body of the loop leaving the images alone when there is nothing to
\* seek: with no content signature that has an existing commit, nothing is
\* deleted.
gitHistoryBasedCleanupOfImageSparingUnsought(e, imageName, repoImageListToCleanup, groups, existing, refs) ==
    LET g == groups[imageName]
        contentSignatureCommitHashes ==
            [sig \in {s \in DOMAIN g : MapGet(existing[imageName], s) # {}} |->
                existing[imageName][sig]]
        reached == scanReferencesHistory(e, refs, contentSignatureCommitHashes)
        repoImageListToKeep ==
            IF DOMAIN contentSignatureCommitHashes # {}
            THEN UNION {g[sig] : sig \in reached \cap DOMAIN g}
            ELSE repoImageListToCleanup
    IN  [err |-> IF DOMAIN contentSignatureCommitHashes # {} /\ ~(reached \subseteq DOMAIN g)
                 THEN "panic" ELSE "",
         scanned |-> DOMAIN contentSignatureCommitHashes # {},
         reached |-> IF DOMAIN contentSignatureCommitHashes # {} THEN reached ELSE {},
         keep |-> repoImageListToKeep,
         delete |-> exceptRepoImageList(repoImageListToCleanup, repoImageListToKeep)]

\* The body of the "Git history based cleanup" loop for one image name:
\* [err, scanned, reached, keep, delete]; scanned: there was something to
\* seek; reached: the content signatures the scan has reported.
gitHistoryBasedCleanupOfImage(e, imageName, repoImageListToCleanup, groups, existing, refs) ==
    LET g == groups[imageName]
        contentSignatureCommitHashes ==
            [sig \in {s \in DOMAIN g : MapGet(existing[imageName], s) # {}} |->
                existing[imageName][sig]]
        reached == scanReferencesHistory(e, refs, contentSignatureCommitHashes)
        repoImageListToKeep ==
            IF DOMAIN contentSignatureCommitHashes # {}
            THEN UNION {g[sig] : sig \in reached \cap DOMAIN g}
            ELSE {}
    IN  [err |-> IF DOMAIN contentSignatureCommitHashes # {} /\ ~(reached \subseteq DOMAIN g)
                 THEN "panic" ELSE "",
         scanned |-> DOMAIN contentSignatureCommitHashes # {},
         reached |-> IF DOMAIN contentSignatureCommitHashes # {} THEN reached ELSE {},
         keep |-> repoImageListToKeep,
         delete |-> exceptRepoImageList(repoImageListToCleanup, repoImageListToKeep)]

\* getImageUnusedCommitHashes: per image name, the metadata commits whose
\* content signature no image of the result carries.
getImageUnusedCommitHashes(resultImageRepoImageList, metadata) ==
    [n \in DOMAIN metadata |->
        {h \in DOMAIN metadata[n] :
            ~\E i \in MapGet(resultImageRepoImageList, n) :
                contentSignatureOf(i) = metadata[n][h]}]

\* -------------------------------------------------------------------------
\* The inputs of a run
\* -------------------------------------------------------------------------

\* The largest limit and expiry period (in ticks of the clock) of a policy, and
\* the largest number of commits a reference's history is walked.
MaxLimit == 2
MaxPeriod == 2
MaxRefLimit == 2
MaxLater == 1

NoPolicy == [hasLimit |-> FALSE, limit |-> 0, hasExpiryPeriod |-> FALSE, expiryPeriod |-> 0]

\* The policy of one strategy: a limit or none, an expiry period or none.
PolicyValues ==
    {[hasLimit |-> hl, limit |-> l, hasExpiryPeriod |-> he, expiryPeriod |-> e] :
        hl \in BOOLEAN, l \in (0 - 1)..MaxLimit, he \in BOOLEAN, e \in 0..MaxPeriod}

\* ImagesCleanupPolicies, from the policies of the three strategies.
ImagesCleanupPolicies(t, c, s) ==
    [GitTagStrategyHasLimit |-> t.hasLimit,
     GitTagStrategyLimit |-> t.limit,
     GitTagStrategyHasExpiryPeriod |-> t.hasExpiryPeriod,
     GitTagStrategyExpiryPeriod |-> t.expiryPeriod,
     GitCommitStrategyHasLimit |-> c.hasLimit,
     GitCommitStrategyLimit |-> c.limit,
     GitCommitStrategyHasExpiryPeriod |-> c.hasExpiryPeriod,
     GitCommitStrategyExpiryPeriod |-> c.expiryPeriod,
     StagesSignatureStrategyHasLimit |-> s.hasLimit,
     StagesSignatureStrategyLimit |-> s.limit,
     StagesSignatureStrategyHasExpiryPeriod |-> s.hasExpiryPeriod,
     StagesSignatureStrategyExpiryPeriod |-> s.expiryPeriod]

\* The policies of the runs: one strategy's policy set and the others unset, or
\* the three set alike.  An unset limit or period is zero.
PolicyChoices ==
    LET P == {p \in PolicyValues : /\ ~p.hasLimit => p.limit = 0
                                   /\ ~p.hasExpiryPeriod => p.expiryPeriod = 0
                                   /\ p.hasExpiryPeriod => p.expiryPeriod > 0}
    IN  {ImagesCleanupPolicies(p, NoPolicy, NoPolicy) : p \in P}
        \cup {ImagesCleanupPolicies(NoPolicy, p, NoPolicy) : p \in P}
        \cup {ImagesCleanupPolicies(NoPolicy, NoPolicy, p) : p \in P}
        \cup {ImagesCleanupPolicies(p, p, p) : p \in P}

\* The clock of a run: one tick after the newest image.
Now == 1 + Max(0, CHOOSE t \in {Info(i).CreatedAt : i \in ImageIds} :
                      \A i \in ImageIds : Info(i).CreatedAt <= t)

\* The Kubernetes clusters: the images of D deployed, each under the workload
\* kind and the context its id selects, next to an image of no repo.
KubeClient(D, ctx) ==
    [k \in Range(WorkloadKinds) |->
        LET here == {i \in D : /\ WorkloadKinds[(i % Len(WorkloadKinds)) + 1] = k
                                /\ (i % 2 = 0) = (ctx = "ctx-even")}
        IN  (IF k = "Pods" THEN <<"reg/other:1">> ELSE << >>)
            \o [j \in 1..Cardinality(here) |-> dockerImageName(SetToSeq(here)[j])]]

KubernetesContextsClients(D) ==
    [ctx \in {"ctx-even", "ctx-odd"} |-> KubeClient(D, ctx)]

DeployedChoices == {{}, {2, 6}, {3, 8, 10}, {1, 4, 5, 7}}

\* The local git repository: its tags, its remote branches, its commits.
GitTagChoices == {{}, {<<"v", "1">>}, {<<"v", "1">>, <<"v", "2">>}}
GitBranchChoices == {{}, {<<"f", "/", "X">>}}

CommitStates(s1, s2, s3) ==
    [c \in {"c1", "c2", "c3"} |-> IF c = "c1" THEN s1 ELSE IF c = "c2" THEN s2 ELSE s3]

CommitStateChoices ==
    {CommitStates(s1, s2, s3) : s1 \in {"exists", "missing"},
                                s2 \in {"exists", "missing", "bad", "failed"},
                                s3 \in {"exists", "missing"}}

\* The references the keep policies select, each with the number of commits
\* of its history that are walked.
RefChoices ==
    {{}} \cup {{[head |-> h, limit |-> l]} : h \in {CommitC2, CommitC3}, l \in 1..MaxRefLimit}
         \cup {{[head |-> CommitC1, limit |-> 1], [head |-> CommitC3, limit |-> 1]}}

\* One entry of the stages storage repo.
RepoEntry(tag, hasLabels, labels) == [tag |-> tag, hasLabels |-> hasLabels, labels |-> labels]

\* The record PutImageCommit publishes.
MetadataEntry(imageName, commit, sig) ==
    RepoEntry(makeRepoImageMetadataByCommitImageRecord(imageName, commit), TRUE,
              {<<ContentSignatureLabel, sig>>})

\* The record AddManagedImage publishes.
ManagedEntry(imageName) == RepoEntry(makeRepoManagedImageRecord(imageName), TRUE, {})

\* A stage image.
StageEntry(signature, uniqueID) == RepoEntry(StageImageTag(signature, uniqueID), TRUE, {})

SigS1 == <<"s", "1">>
SigS2 == <<"s", "2">>

\* The stages and the managed images of the project.
BaseEntries ==
    <<StageEntry(SigS1, 7), ManagedEntry(NameA), StageEntry(SigS2, 12),
      ManagedEntry(NameB), ManagedEntry(<< >>), StageEntry(SigS1, 9)>>

\* The image metadata of the project, by what was published.
MetadataChoices ==
    {<< >>,
     <<MetadataEntry(NameA, CommitC1, "sigA"), MetadataEntry(NameA, CommitC2, "sigB"),
       MetadataEntry(NameB, CommitC3, "sigD")>>,
     <<MetadataEntry(NameA, CommitC3, "sigA"), MetadataEntry(NameA, CommitC1, "sigC"),
       MetadataEntry(NameB, CommitC1, "sigB"), MetadataEntry(NameB, CommitC2, "sigA")>>,
     <<MetadataEntry(NameA, CommitC2, "sigB"),
       MetadataEntry(NameA, <<"C", "2">>, "sigC"),
       RepoEntry(makeRepoImageMetadataByCommitImageRecord(NameB, CommitC1), FALSE, {}),
       MetadataEntry(NameB, CommitC3, "sigZ")>>}

\* The listings of the Kubernetes API that may fail a probe, each a context and
\* a workload kind: any one listing, two kinds of one context, or one kind in
\* each context.
KubeListFailures ==
    {{<<ctx, k>>} : ctx \in {"ctx-even", "ctx-odd"}, k \in Range(WorkloadKinds)}
    \cup {{<<"ctx-odd", "Deployments">>, <<"ctx-odd", "Jobs">>},
          {<<"ctx-even", "StatefulSets">>, <<"ctx-odd", "CronJobs">>}}

\* The points at which the environment may fail an invocation.
FailPoints ==
    {"none", "lock", "hostLock", "list", "tags", "kube", "gitTags", "gitBranches",
     "plainOpen", "refs", "scan", "managed"}

EmptyMap == [k \in {} |-> {}]

\* The mode of a cleanup: "retention", "history" (GitHistoryBasedCleanup),
\* "v12" (GitHistoryBasedCleanupV12) or "both".
Modes == {"retention", "history", "v12", "both"}

ImagesCleanupOptions(mode, dryRun, withoutKube, localGitNil, policies) ==
    [DryRun |-> dryRun, WithoutKube |-> withoutKube, LocalGitNil |-> localGitNil,
     GitHistoryBasedCleanup |-> mode \in {"history", "both"},
     GitHistoryBasedCleanupV12 |-> mode \in {"v12", "both"},
     Policies |-> policies]

\* The options of a purge; the fields of a cleanup are unused.
PurgeOptions(dryRun) ==
    ImagesCleanupOptions("retention", dryRun, TRUE, FALSE,
                         ImagesCleanupPolicies(NoPolicy, NoPolicy, NoPolicy))

Environment(D, gitTags, gitBranches, commitState, refs, undeletable, undeletableTags, fail) ==
    [kube |-> KubernetesContextsClients(D), gitTags |-> gitTags,
     gitBranches |-> gitBranches, commitState |-> commitState, refs |-> refs,
     now |-> Now, later |-> [p \in Procs |-> 0], undeletable |-> undeletable,
     undeletableTags |-> undeletableTags, fail |-> fail, cancelled |-> FALSE]

\* time.Now() as invocation p reads it: the clock of the first reading, and
\* what has passed since when p is run later.
timeNow(p) == env.now + env.later[p]

\* The locals of an invocation before it has run.
LocInit ==
    [decoded |-> << >>, accepted |-> << >>, encoded |-> << >>, calls |-> << >>,
     deployed |-> << >>, fetched |-> EmptyMap,
     imageRepoImageList |-> EmptyMap, imageCommitHashImageMetadata |-> EmptyMap,
     repoImagesToCleanup |-> EmptyMap, exceptedRepoImages |-> EmptyMap,
     resultRepoImages |-> EmptyMap, groups |-> EmptyMap, existing |-> EmptyMap,
     referencesToScan |-> {}, reached |-> EmptyMap, todo |-> {}, cur |-> << >>,
     curList |-> {}, sorted |-> EmptyMap, listFailed |-> {}, pending |-> << >>,
     stage |-> "", held |-> "", err |-> ""]

OnlyP1(f) == [p \in Procs |-> IF p = "p1" THEN f ELSE "none"]

AllExist == CommitStates("exists", "exists", "exists")
PolicyLimitOne ==
    LET p == [hasLimit |-> TRUE, limit |-> 1, hasExpiryPeriod |-> FALSE, expiryPeriod |-> 0]
    IN  ImagesCleanupPolicies(p, p, p)
NoPolicies == ImagesCleanupPolicies(NoPolicy, NoPolicy, NoPolicy)

\* One cleanup, the policies varied.
RetentionPolicyCases ==
    {[env |-> Environment(D, {<<"v", "1">>, <<"v", "2">>}, {<<"f", "/", "X">>}, cs, {},
                          {}, {}, OnlyP1("none")),
      opts |-> ImagesCleanupOptions("retention", dry, FALSE, FALSE, pol),
      metadata |-> << >>] :
        D \in DeployedChoices, cs \in {AllExist, CommitStates("missing", "exists", "exists")},
        dry \in BOOLEAN, pol \in PolicyChoices}

\* One cleanup, the local git repository varied.
RetentionGitCases ==
    {[env |-> Environment(D, gt, gb, cs, {}, {}, {}, OnlyP1("none")),
      opts |-> ImagesCleanupOptions("retention", dry, FALSE, FALSE, pol),
      metadata |-> << >>] :
        D \in DeployedChoices, gt \in GitTagChoices, gb \in GitBranchChoices,
        cs \in CommitStateChoices, dry \in BOOLEAN, pol \in {NoPolicies, PolicyLimitOne}}

\* The states of the commits in the git-history-based runs.
HistoryCommitStateChoices == {cs \in CommitStateChoices : cs["c3"] = "exists"}

\* One git-history-based cleanup; a dry run with one deployment only.
HistoryCases ==
    {[env |-> Environment(D, {<<"v", "1">>}, {}, cs, refs, {}, {}, OnlyP1("none")),
      opts |-> ImagesCleanupOptions(mode, dry, FALSE, FALSE, PolicyLimitOne),
      metadata |-> md] :
        D \in DeployedChoices, cs \in HistoryCommitStateChoices, refs \in RefChoices,
        mode \in Modes \ {"retention"}, dry \in {FALSE}, md \in MetadataChoices}
    \cup
    {[env |-> Environment({2, 6}, {<<"v", "1">>}, {}, cs, refs, {}, {}, OnlyP1("none")),
      opts |-> ImagesCleanupOptions(mode, dry, FALSE, FALSE, PolicyLimitOne),
      metadata |-> md] :
        cs \in HistoryCommitStateChoices, refs \in RefChoices,
        mode \in Modes \ {"retention"}, dry \in {TRUE}, md \in MetadataChoices}

BaseRefs == {[head |-> CommitC3, limit |-> 1]}
BaseMetadata ==
    <<MetadataEntry(NameA, CommitC1, "sigA"), MetadataEntry(NameA, CommitC2, "sigB"),
      MetadataEntry(NameB, CommitC3, "sigD")>>

\* One cleanup that the environment fails at some point.
FailedCases ==
    {[env |-> Environment({2, 6}, {<<"v", "1">>}, {}, AllExist, BaseRefs, {}, {}, OnlyP1(f)),
      opts |-> ImagesCleanupOptions(mode, FALSE, FALSE, FALSE, PolicyLimitOne),
      metadata |-> BaseMetadata] :
        f \in FailPoints, mode \in Modes}

\* One cleanup with images or records the registry refuses to delete.
UndeletableCases ==
    {[env |-> Environment({2, 6}, {<<"v", "1">>}, {}, AllExist, BaseRefs, ui, ut,
                          OnlyP1("none")),
      opts |-> ImagesCleanupOptions(mode, dry, FALSE, FALSE, PolicyLimitOne),
      metadata |-> BaseMetadata] :
        ui \in {{}, {2}, {7}, {4, 8}},
        ut \in {{}, {makeRepoImageMetadataByCommitImageRecord(NameA, CommitC1)}},
        mode \in Modes, dry \in BOOLEAN}

\* One cleanup without Kubernetes or without a local git repository.
WithoutCases ==
    {[env |-> Environment({2, 6}, {<<"v", "1">>}, {}, AllExist, BaseRefs, {}, {},
                          OnlyP1("none")),
      opts |-> ImagesCleanupOptions(mode, dry, wk, gn, PolicyLimitOne),
      metadata |-> BaseMetadata] :
        mode \in Modes, dry \in BOOLEAN, wk \in BOOLEAN, gn \in BOOLEAN}

\* One cleanup without a local git repository that the environment fails
\* before the test of LocalGit.
WithoutGitFailedCases ==
    {[env |-> Environment({2, 6}, {<<"v", "1">>}, {}, AllExist, BaseRefs, {}, {}, OnlyP1(f)),
      opts |-> ImagesCleanupOptions(mode, FALSE, FALSE, TRUE, PolicyLimitOne),
      metadata |-> BaseMetadata] :
        f \in {"lock", "hostLock", "list", "tags"}, mode \in Modes}

OtherCases == FailedCases \cup UndeletableCases \cup WithoutCases \cup WithoutGitFailedCases

CleanupCases == RetentionPolicyCases \cup RetentionGitCases \cup HistoryCases \cup OtherCases

InitCommon ==
    /\ imagesRepo = ImageIds
    /\ dlock = [p \in Procs |-> ""]
    /\ hostLock = [n \in HostLockNames |-> NoProc]
    /\ loc = [p \in Procs |-> LocInit]
    /\ log = [p \in Procs |-> << >>]

\* One images cleanup, alone.
InitCleanup ==
    /\ InitCommon
    /\ \E c \in CleanupCases :
        /\ env = c.env
        /\ stagesRepo = BaseEntries \o c.metadata
        /\ opts = [p \in Procs |-> c.opts]
    /\ kind = [p \in Procs |-> IF p = "p1" THEN "cleanup" ELSE "idle"]
    /\ pc = [p \in Procs |-> IF p = "p1" THEN "start" ELSE "done"]

\* -------------------------------------------------------------------------
\* The invocations, step by step
\* -------------------------------------------------------------------------

isHistoryMode(o) == o.GitHistoryBasedCleanup \/ o.GitHistoryBasedCleanupV12

\* The invocation going on whatever LockStagesAndImages returned.
afterLockStagesAndImagesIgnoringError(err) == "locked"

\* Where an invocation goes after LockStagesAndImages returned err: it
\* returns the error, or goes on under the lock.
afterLockStagesAndImages(err) == IF err # "" THEN "done" ELSE "locked"

\* The part of a purge an invocation starts with.
firstStage(k) ==
    IF k = "purge" THEN "images" ELSE IF k = "stagesPurge" THEN "stages" ELSE "cleanup"

\* The host lock of the part st of an invocation.
hostLockName(st) ==
    IF st = "cleanup" THEN "images-cleanup"
    ELSE IF st = "images" THEN "images-purge" ELSE "stages-purge"

\* The first step of the function WithHostLock runs for part st.
bodyOf(st) ==
    IF st = "cleanup" THEN "init"
    ELSE IF st = "images" THEN "imagesPurge" ELSE "deleteStages"

\* The project locked as by an invocation that gets or creates images only.
LockStagesAndImagesOptionsImagesOnly == [GetOrCreateImagesOnly |-> TRUE]

\* The options ImagesCleanup, StagesPurge and Purge lock the project with.
LockStagesAndImagesOptions == [GetOrCreateImagesOnly |-> FALSE]

\* The way the lock manager takes the lock under the options: shared with
\* other holders that get or create images only, exclusive otherwise.
lockModeOf(options) == IF options.GetOrCreateImagesOnly THEN "shared" ELSE "exclusive"

\* The lock manager grants the lock in a mode: an exclusive lock when nobody
\* holds the lock, a shared lock when nobody holds it exclusively.
lockGranted(held, mode) ==
    IF mode = "shared" THEN \A q \in DOMAIN held : held[q] # "exclusive"
    ELSE \A q \in DOMAIN held : held[q] = ""

\* The invocation p holds the lock of the project.
holdsLock(p) == dlock[p] # ""

\* storageLockManager.LockStagesAndImages: the lock of the project is taken
\* when the lock manager grants it; a failure of the lock manager is returned
\* as an error.
LockStagesAndImages(p) ==
    /\ pc[p] = "start"
    /\ LET err == IF env.fail[p] = "lock" THEN "unable to lock stages and images" ELSE ""
           mode == lockModeOf(LockStagesAndImagesOptions)
       IN  /\ IF err = ""
              THEN lockGranted(dlock, mode) /\ dlock' = [dlock EXCEPT ![p] = mode]
              ELSE UNCHANGED dlock
           /\ pc' = [pc EXCEPT ![p] = afterLockStagesAndImages(err)]
           /\ loc' = [loc EXCEPT ![p].err = err, ![p].stage = firstStage(kind[p])]
    /\ UNCHANGED <<imagesRepo, stagesRepo, env, hostLock, kind, opts, log>>

\* werf.WithHostLock, the acquisition: the host lock is taken when it is free;
\* a timeout is returned as an error and the function is not run.
AcquireHostLock(p) ==
    /\ pc[p] = "locked"
    /\ LET name == hostLockName(loc[p].stage)
       IN  IF env.fail[p] = "hostLock"
           THEN /\ pc' = [pc EXCEPT ![p] = "unlock"]
                /\ loc' = [loc EXCEPT ![p].err = "host lock timeout"]
                /\ UNCHANGED hostLock
           ELSE /\ hostLock[name] = NoProc
                /\ hostLock' = [hostLock EXCEPT ![name] = p]
                /\ pc' = [pc EXCEPT ![p] = bodyOf(loc[p].stage)]
                /\ loc' = [loc EXCEPT ![p].held = name]
    /\ UNCHANGED <<imagesRepo, stagesRepo, env, dlock, kind, opts, log>>

\* The invocation returning after WithHostLock with no deferred Unlock.
afterHostLockNoUnlock(k, st, err) ==
    IF k = "purge" /\ st = "images" /\ err = "" THEN "locked" ELSE "done"

\* Where an invocation goes when WithHostLock has returned err for part st:
\* Purge runs the stages purge after a successful images purge; anything else
\* returns, which runs the deferred Unlock.
afterHostLock(k, st, err) ==
    IF k = "purge" /\ st = "images" /\ err = "" THEN "locked" ELSE "unlock"

\* werf.WithHostLock, the release: the function has returned (or panicked).
ReleaseHostLock(p) ==
    /\ pc[p] = "releaseHost"
    /\ hostLock' = [hostLock EXCEPT ![loc[p].held] = NoProc]
    /\ pc' = [pc EXCEPT ![p] = afterHostLock(kind[p], loc[p].stage, loc[p].err)]
    /\ loc' = [loc EXCEPT ![p].held = "",
                          ![p].stage = IF afterHostLock(kind[p], @, loc[p].err) = "locked"
                                       THEN "stages" ELSE @]
    /\ UNCHANGED <<imagesRepo, stagesRepo, env, dlock, kind, opts, log>>

\* The deferred storageLockManager.Unlock.
Unlock(p) ==
    /\ pc[p] = "unlock"
    /\ dlock' = [dlock EXCEPT ![p] = ""]
    /\ pc' = [pc EXCEPT ![p] = "done"]
    /\ UNCHANGED <<imagesRepo, stagesRepo, env, hostLock, kind, opts, loc, log>>

\* selectRepoImagesFromImagesRepo: the images of the repo by image name.
selectRepoImagesFromImagesRepo(repo) ==
    [n \in ImageNames |-> {i \in repo : Info(i).imageName = n}]

\* run without the test of LocalGit after initRepoImagesData.
afterInitIgnoringLocalGit(o) ==
    IF ~o.WithoutKube THEN "kube"
    ELSE IF isHistoryMode(o) THEN "historyPrepare" ELSE "cleanupLoop"

\* run going from initRepoImagesData straight to the cleanup, the Kubernetes
\* pass left out.
afterInitWithoutKubePass(o) ==
    IF o.LocalGitNil THEN "releaseHost"
    ELSE IF isHistoryMode(o) THEN "historyPrepare" ELSE "cleanupLoop"

\* The step of run after initRepoImagesData, and after the Kubernetes pass.
afterInit(o) ==
    IF o.LocalGitNil THEN "releaseHost"
    ELSE IF ~o.WithoutKube THEN "kube"
    ELSE IF isHistoryMode(o) THEN "historyPrepare" ELSE "cleanupLoop"

afterKube(o) == IF isHistoryMode(o) THEN "historyPrepare" ELSE "cleanupLoop"

\* initRepoImagesData, and the test of LocalGit that follows it in run.
InitRepoImagesData(p) ==
    /\ pc[p] = "init"
    /\ LET o == opts[p]
           err == IF env.fail[p] = "list" THEN "select repo images failed"
                  ELSE IF isHistoryMode(o) /\ env.fail[p] = "tags"
                       THEN "get image commits failed" ELSE ""
           repoImages == selectRepoImagesFromImagesRepo(imagesRepo)
       IN  /\ log' = [log EXCEPT ![p] =
                        Append(@, LogEntry("list", "init", << >>, {}, {}, FALSE, holdsLock(p)))]
           /\ IF err # ""
              THEN /\ pc' = [pc EXCEPT ![p] = "releaseHost"]
                   /\ loc' = [loc EXCEPT
                        ![p].err = err,
                        ![p].imageRepoImageList =
                            IF env.fail[p] = "list" THEN @ ELSE repoImages]
              ELSE /\ pc' = [pc EXCEPT ![p] = afterInit(o)]
                   /\ loc' = [loc EXCEPT
                        ![p].imageRepoImageList = repoImages,
                        ![p].imageCommitHashImageMetadata =
                            IF isHistoryMode(o)
                            THEN initImageCommitHashImageMetadata(stagesRepo) ELSE @,
                        ![p].repoImagesToCleanup = repoImages,
                        ![p].fetched = repoImages,
                        ![p].todo = DOMAIN repoImages]
    /\ UNCHANGED <<imagesRepo, stagesRepo, env, dlock, hostLock, kind, opts>>

\* The "Skipping repo images that are being used in Kubernetes" step of run.
\* The map it filters in place is the manager's imageRepoImageList.  When the
\* Kubernetes API fails, some listings fail, and the contexts are gone through
\* in no fixed order up to one with a failed listing.
SkipUsedInKubernetes(p) ==
    /\ pc[p] = "kube"
    /\ IF env.fail[p] = "kube"
       THEN \E failed \in KubeListFailures :
              \E ctx \in {f[1] : f \in failed} :
                LET err == getDeployedDockerImagesNamesErr(
                               deployedDockerImagesErr({f[2] : f \in {g \in failed : g[1] = ctx}}))
                IN  /\ pc' = [pc EXCEPT ![p] = "releaseHost"]
                    /\ loc' = [loc EXCEPT ![p].err = err, ![p].listFailed = failed]
                    /\ UNCHANGED log
       ELSE LET r == exceptRepoImagesByWhitelist(loc[p].repoImagesToCleanup, env.kube)
            IN  /\ pc' = [pc EXCEPT ![p] = afterKube(opts[p])]
                /\ loc' = [loc EXCEPT ![p].repoImagesToCleanup = r.repoImages,
                                      ![p].imageRepoImageList = r.repoImages,
                                      ![p].exceptedRepoImages = r.exceptedRepoImages,
                                      ![p].deployed = getDeployedDockerImagesNames(env.kube)]
                /\ log' = [log EXCEPT ![p] =
                             Append(@, LogEntry("except", "kubernetes", << >>,
                                 UNION {r.exceptedRepoImages[n] :
                                           n \in DOMAIN r.exceptedRepoImages},
                                 {}, FALSE, holdsLock(p)))]
    /\ UNCHANGED <<imagesRepo, stagesRepo, env, dlock, hostLock, kind, opts>>

\* The log entries of the delete batches a pass has run for image name.
BatchLog(done, name, dryRun, locked) ==
    [k \in 1..Len(done) |->
        LogEntry("delete", done[k].phase, name, done[k].imgs, {}, ~dryRun, locked)]

\* One turn of the loop of repoImagesCleanup, first half:
\* repoImagesCleanupByNonexistentGitPrimitive for an image name not yet done.
CleanupByNonexistentGitPrimitive(p) ==
    /\ pc[p] = "cleanupLoop"
    /\ \E imageName \in loc[p].todo :
        LET o == opts[p]
            repoImages == loc[p].repoImagesToCleanup[imageName]
            r == nonexistentGitPrimitiveBatches(repoImages, o, env, env.gitTags,
                                                env.gitBranches)
            err == IF ~o.LocalGitNil /\ env.fail[p] = "gitTags"
                   THEN "cannot get local git tags list"
                   ELSE IF ~o.LocalGitNil /\ env.fail[p] = "gitBranches"
                        THEN "cannot get local git branches list" ELSE r.err
            rb == RunBatches(r.batches, o.DryRun, env.undeletable)
        IN  IF err # ""
            THEN /\ pc' = [pc EXCEPT ![p] = "releaseHost"]
                 /\ loc' = [loc EXCEPT ![p].err = err]
                 /\ UNCHANGED <<imagesRepo, log>>
            ELSE /\ imagesRepo' = imagesRepo \ rb.removed
                 /\ log' = [log EXCEPT ![p] =
                              @ \o BatchLog(rb.done, imageName, o.DryRun, holdsLock(p))]
                 /\ pc' = [pc EXCEPT ![p] = IF rb.err # "" THEN "releaseHost" ELSE "policies"]
                 /\ loc' = [loc EXCEPT ![p].err = rb.err, ![p].cur = imageName,
                                       ![p].curList = exceptRepoImageList(repoImages, rb.passed)]
    /\ UNCHANGED <<stagesRepo, env, dlock, hostLock, kind, opts>>

\* One turn of the loop of repoImagesCleanup, second half:
\* repoImagesCleanupByPolicies for the image name, and the end of the turn.
\* sorted keeps the order sort.Slice has left the images of the name in.
CleanupByPolicies(p) ==
    /\ pc[p] = "policies"
    /\ \E ord \in SortedOrders(loc[p].curList) :
        LET o == opts[p]
            imageName == loc[p].cur
            batches == repoImagesCleanupByPolicies(ord, o.Policies, timeNow(p))
            rb == RunBatches(batches, o.DryRun, env.undeletable)
            todo == loc[p].todo \ {imageName}
        IN  /\ imagesRepo' = imagesRepo \ rb.removed
            /\ log' = [log EXCEPT ![p] =
                         @ \o BatchLog(rb.done, imageName, o.DryRun, holdsLock(p))]
            /\ IF rb.err # ""
               THEN /\ pc' = [pc EXCEPT ![p] = "releaseHost"]
                    /\ loc' = [loc EXCEPT ![p].err = rb.err]
               ELSE /\ pc' = [pc EXCEPT ![p] = IF todo = {} THEN "finish" ELSE "cleanupLoop"]
                    /\ loc' = [loc EXCEPT
                         ![p].todo = todo,
                         ![p].sorted =
                             MapSet(@, imageName,
                                    [st \in {GitTag, GitCommit, StagesSignature} |->
                                        WithScheme(ord, st)]),
                         ![p].resultRepoImages =
                             MapSet(@, imageName,
                                    exceptRepoImageList(loc[p].curList, rb.passed))]
    /\ UNCHANGED <<stagesRepo, env, dlock, hostLock, kind, opts>>

\* repoImagesGitHistoryBasedCleanup up to its loop: the local git repository is
\* opened, the references to scan collected, the images grouped by content
\* signature, and the images without related metadata kept unless V12 is set.
PrepareGitHistoryBasedCleanup(p) ==
    /\ pc[p] = "historyPrepare"
    /\ LET o == opts[p]
           metadata == loc[p].imageCommitHashImageMetadata
           toCleanup == loc[p].repoImagesToCleanup
           groups == getImageContentSignatureRepoImageListToCleanup(toCleanup, metadata)
           ex == getImageContentSignatureExistingCommitHashes(env, metadata)
           without == getImageRepoImageListWithoutRelatedImageMetadata(toCleanup, groups)
           err == IF env.fail[p] = "plainOpen" THEN "git plain open failed"
                  ELSE IF env.fail[p] = "refs" THEN "get references to scan failed"
                  ELSE ex.err
           kept == [n \in DOMAIN without |->
                       exceptRepoImageList(toCleanup[n], without[n])]
       IN  IF err # ""
           THEN /\ pc' = [pc EXCEPT ![p] = "releaseHost"]
                /\ loc' = [loc EXCEPT ![p].err = err]
           ELSE /\ pc' = [pc EXCEPT ![p] = IF DOMAIN toCleanup = {} THEN "metadata"
                                           ELSE "historyLoop"]
                /\ loc' = [loc EXCEPT
                     ![p].referencesToScan = getReferencesToScan(env),
                     ![p].groups = groups,
                     ![p].existing = ex.value,
                     ![p].resultRepoImages =
                         IF ~o.GitHistoryBasedCleanupV12 THEN without ELSE EmptyMap,
                     ![p].repoImagesToCleanup =
                         IF ~o.GitHistoryBasedCleanupV12 THEN kept ELSE @,
                     ![p].imageRepoImageList =
                         IF ~o.GitHistoryBasedCleanupV12 THEN kept ELSE @,
                     ![p].todo = DOMAIN toCleanup]
    /\ UNCHANGED <<imagesRepo, stagesRepo, env, dlock, hostLock, kind, opts, log>>

\* One turn of the "Git history based cleanup" loop: the references are
\* scanned for the content signatures of an image name not yet done, and the
\* images of the signatures not reached are deleted.
GitHistoryBasedCleanupOfImage(p) ==
    /\ pc[p] = "historyLoop"
    /\ \E imageName \in loc[p].todo :
        LET o == opts[p]
            r == gitHistoryBasedCleanupOfImage(env, imageName,
                     loc[p].repoImagesToCleanup[imageName], loc[p].groups,
                     loc[p].existing, loc[p].referencesToScan)
            err == IF r.scanned /\ env.fail[p] = "scan" THEN "scan references history failed"
                   ELSE r.err
            d == deleteRepoImageInImagesRepo(o.DryRun, r.delete, env.undeletable)
            todo == loc[p].todo \ {imageName}
        IN  IF err # ""
            THEN /\ pc' = [pc EXCEPT ![p] = "releaseHost"]
                 /\ loc' = [loc EXCEPT ![p].err = err]
                 /\ UNCHANGED <<imagesRepo, log>>
            ELSE /\ imagesRepo' = imagesRepo \ d.removed
                 /\ log' = [log EXCEPT ![p] =
                      IF r.delete = {} THEN @
                      ELSE Append(@, LogEntry("delete", "git-history", imageName, r.delete,
                                              {}, ~o.DryRun, holdsLock(p)))]
                 /\ pc' = [pc EXCEPT ![p] = IF d.err # "" THEN "releaseHost"
                                            ELSE IF todo = {} THEN "metadata"
                                            ELSE "historyLoop"]
                 /\ loc' = [loc EXCEPT
                      ![p].err = d.err,
                      ![p].todo = todo,
                      ![p].reached = MapSet(@, imageName, r.reached),
                      ![p].resultRepoImages =
                          IF r.scanned THEN MapAppend(@, imageName, r.keep) ELSE @]
    /\ UNCHANGED <<stagesRepo, env, dlock, hostLock, kind, opts>>

\* RmImageCommit answering for a removal it has not made.
RmImageCommitKeepingRecord(repo, imageName, commit, undeletableTags) ==
    [err |-> "", repo |-> repo]

\* RmImageCommit(imageName, commit): [err, repo].
RmImageCommit(repo, imageName, commit, undeletableTags) ==
    LET tag == makeRepoImageMetadataByCommitImageRecord(imageName, commit)
    IN  IF ~TagExists(repo, tag) THEN [err |-> "", repo |-> repo]
        ELSE IF tag \in undeletableTags
             THEN [err |-> "unable to remove repo image", repo |-> repo]
             ELSE [err |-> "", repo |-> RemoveTag(repo, tag)]

RECURSIVE rmUnusedImageCommitsInDryRun(_, _, _, _)
\* The loops of "Deleting unused images metadata" without the test of DryRun
\* around RmImageCommit.
rmUnusedImageCommitsInDryRun(repo, pairs, dryRun, undeletableTags) ==
    IF Len(pairs) = 0 THEN repo
    ELSE rmUnusedImageCommitsInDryRun(
             RmImageCommit(repo, Head(pairs)[1], Head(pairs)[2], undeletableTags).repo,
             Tail(pairs), dryRun, undeletableTags)

RECURSIVE rmUnusedImageCommits(_, _, _, _)
\* The loops of "Deleting unused images metadata" over the (image name, commit
\* hash) pairs: nothing under DryRun; a failed removal is warned of and the
\* loop goes on.
rmUnusedImageCommits(repo, pairs, dryRun, undeletableTags) ==
    IF Len(pairs) = 0 \/ dryRun THEN repo
    ELSE rmUnusedImageCommits(
             RmImageCommit(repo, Head(pairs)[1], Head(pairs)[2], undeletableTags).repo,
             Tail(pairs), dryRun, undeletableTags)

\* The "Deleting unused images metadata" step of repoImagesGitHistoryBasedCleanup.
DeleteUnusedImagesMetadata(p) ==
    /\ pc[p] = "metadata"
    /\ LET o == opts[p]
           unused == getImageUnusedCommitHashes(loc[p].resultRepoImages,
                                                loc[p].imageCommitHashImageMetadata)
           pairs == {<<n, h>> : n \in DOMAIN unused, h \in UNION {unused[m] : m \in DOMAIN unused}}
           unusedPairs == {x \in pairs : x[2] \in unused[x[1]]}
       IN  /\ stagesRepo' = rmUnusedImageCommits(stagesRepo, SetToSeq(unusedPairs), o.DryRun,
                                                 env.undeletableTags)
           /\ log' = [log EXCEPT ![p] =
                IF unusedPairs = {} THEN @
                ELSE Append(@, LogEntry("rm", "metadata", << >>, {},
                         {makeRepoImageMetadataByCommitImageRecord(x[1], x[2]) :
                             x \in unusedPairs},
                         ~o.DryRun, holdsLock(p)))]
    /\ pc' = [pc EXCEPT ![p] = "finish"]
    /\ UNCHANGED <<imagesRepo, env, dlock, hostLock, kind, opts, loc>>

\* The end of run: the images in use in Kubernetes join the result, which
\* becomes the manager's image list.
FinishRun(p) ==
    /\ pc[p] = "finish"
    /\ LET excepted == loc[p].exceptedRepoImages
           result == loc[p].resultRepoImages
           merged == [n \in DOMAIN result \cup DOMAIN excepted |->
                         MapGet(result, n) \cup MapGet(excepted, n)]
       IN  loc' = [loc EXCEPT ![p].resultRepoImages = merged,
                              ![p].imageRepoImageList = merged]
    /\ pc' = [pc EXCEPT ![p] = "releaseHost"]
    /\ UNCHANGED <<imagesRepo, stagesRepo, env, dlock, hostLock, kind, opts, log>>

\* The steps of an images cleanup.
CleanupStep(p) ==
    \/ LockStagesAndImages(p)
    \/ AcquireHostLock(p)
    \/ InitRepoImagesData(p)
    \/ SkipUsedInKubernetes(p)
    \/ CleanupByNonexistentGitPrimitive(p)
    \/ CleanupByPolicies(p)
    \/ PrepareGitHistoryBasedCleanup(p)
    \/ GitHistoryBasedCleanupOfImage(p)
    \/ DeleteUnusedImagesMetadata(p)
    \/ FinishRun(p)
    \/ ReleaseHostLock(p)
    \/ Unlock(p)

NextCleanup == \E p \in Procs : CleanupStep(p)

\* One images cleanup, alone, over the inputs of CleanupCases.
SpecCleanup == InitCleanup /\ [][NextCleanup]_vars

\* -------------------------------------------------------------------------
\* Purge and StagesPurge
\* -------------------------------------------------------------------------

\* imagesPurgeManager.run inside its host lock: every image of every image
\* name is listed and passed to deleteRepoImageInImagesRepo.
ImagesPurge(p) ==
    /\ pc[p] = "imagesPurge"
    /\ LET o == opts[p]
           repoImages == selectRepoImagesFromImagesRepo(imagesRepo)
           all == UNION {repoImages[n] : n \in DOMAIN repoImages}
           d == deleteRepoImageInImagesRepo(o.DryRun, all, env.undeletable)
           err == IF env.fail[p] = "list" THEN "select repo images failed" ELSE d.err
       IN  /\ imagesRepo' = IF env.fail[p] = "list" THEN imagesRepo
                            ELSE imagesRepo \ d.removed
           /\ log' = [log EXCEPT ![p] =
                @ \o <<LogEntry("list", "images-purge", << >>, {}, {}, FALSE, holdsLock(p))>>
                  \o (IF env.fail[p] = "list" \/ all = {} THEN << >>
                      ELSE <<LogEntry("delete", "images-purge", << >>, all, {},
                                      ~o.DryRun, holdsLock(p))>>)]
           /\ loc' = [loc EXCEPT ![p].err = err]
    /\ pc' = [pc EXCEPT ![p] = "releaseHost"]
    /\ UNCHANGED <<stagesRepo, env, dlock, hostLock, kind, opts>>

\* GetStageDescription is nil for a stage whose image is not in the repo.
stageDescriptions(repo) ==
    SelectSeq(GetAllStages(Tags(repo)),
              LAMBDA s : TagExists(repo, StageImageTag(s.Signature, s.UniqueID)))

\* The tags of a list of stages.
stageTags(stages) ==
    {StageImageTag(stages[k].Signature, stages[k].UniqueID) : k \in 1..Len(stages)}

\* deleteStageInStagesStorage(stagesManager, options, dryRun, stages...): every
\* stage is tried; [err, repo].
deleteStageInStagesStorage(repo, stages, dryRun, undeletableTags) ==
    IF dryRun THEN [err |-> "", repo |-> repo]
    ELSE Once(LAMBDA tags :
                 [err |-> IF tags \cap undeletableTags # {}
                          THEN "stage deletion failed" ELSE "",
                  repo |-> SelectSeq(repo, LAMBDA e : e.tag \notin tags \ undeletableTags)],
              stageTags(stages))

\* "Deleting stages" going on to the managed images whatever its error.
afterDeleteStagesIgnoringError(err) == "deleteManaged"

\* Where run goes after "Deleting stages": out with the error of GetAllStages
\* or of the delete, on to "Deleting managed images" without one.
afterDeleteStages(err) == IF err # "" THEN "releaseHost" ELSE "deleteManaged"

\* The "Deleting stages" part of stagesPurgeManager.run.
DeleteStages(p) ==
    /\ pc[p] = "deleteStages"
    /\ \E stages \in {stageDescriptions(stagesRepo)} :
        LET o == opts[p]
            d == deleteStageInStagesStorage(stagesRepo, stages, o.DryRun,
                                            env.undeletableTags)
            err == IF env.fail[p] = "tags" THEN "get all stages failed" ELSE d.err
        IN  /\ stagesRepo' = IF env.fail[p] = "tags" THEN stagesRepo ELSE d.repo
            /\ log' = [log EXCEPT ![p] =
                 @ \o <<LogEntry("list", "stages-purge", << >>, {}, {}, FALSE, holdsLock(p))>>
                   \o (IF env.fail[p] = "tags" \/ Len(stages) = 0 THEN << >>
                       ELSE <<LogEntry("rm", "stages", << >>, {}, stageTags(stages),
                                       ~o.DryRun, holdsLock(p))>>)]
            /\ loc' = [loc EXCEPT ![p].err = err]
            /\ pc' = [pc EXCEPT ![p] = afterDeleteStages(err)]
    /\ UNCHANGED <<imagesRepo, env, dlock, hostLock, kind, opts>>

\* RmManagedImage looking for the record under the image name as given, not
\* slugged.
RmManagedImageUnslugged(repo, imageName, undeletableTags) ==
    LET tag == RepoManagedImageRecord_ImageTagPrefix \o imageName
    IN  IF ~TagExists(repo, tag) THEN [err |-> "", repo |-> repo]
        ELSE IF tag \in undeletableTags
             THEN [err |-> "unable to delete image from repo", repo |-> repo]
             ELSE [err |-> "", repo |-> RemoveTag(repo, tag)]

\* The variant of RmManagedImage that hands a record without a tag to the delete.
RmManagedImageDeletingAbsent(repo, imageName, undeletableTags) ==
    LET tag == makeRepoManagedImageRecord(imageName)
    IN  IF ~TagExists(repo, tag) \/ tag \in undeletableTags
        THEN [err |-> "unable to delete image from repo", repo |-> repo]
        ELSE [err |-> "", repo |-> RemoveTag(repo, tag)]

\* RmManagedImage(imageName): [err, repo].
RmManagedImage(repo, imageName, undeletableTags) ==
    LET tag == makeRepoManagedImageRecord(imageName)
    IN  IF ~TagExists(repo, tag) THEN [err |-> "", repo |-> repo]
        ELSE IF tag \in undeletableTags
             THEN [err |-> "unable to delete image from repo", repo |-> repo]
             ELSE [err |-> "", repo |-> RemoveTag(repo, tag)]

\* The loop of "Deleting managed images" left after its first turn.
rmManagedImagesFirstOnly(repo, managedImages, dryRun, undeletableTags) ==
    IF Len(managedImages) = 0 \/ dryRun THEN [err |-> "", repo |-> repo]
    ELSE RmManagedImage(repo, Head(managedImages), undeletableTags)

RECURSIVE rmManagedImages(_, _, _, _)
\* The loop of "Deleting managed images": under DryRun nothing is removed; the
\* first failed removal is returned.
rmManagedImages(repo, managedImages, dryRun, undeletableTags) ==
    IF Len(managedImages) = 0 THEN [err |-> "", repo |-> repo]
    ELSE IF dryRun
         THEN rmManagedImages(repo, Tail(managedImages), dryRun, undeletableTags)
         ELSE LET r == RmManagedImage(repo, Head(managedImages), undeletableTags)
              IN  IF r.err # "" THEN r
                  ELSE rmManagedImages(r.repo, Tail(managedImages), dryRun,
                                       undeletableTags)

\* The "Deleting managed images" part of stagesPurgeManager.run.
DeleteManagedImages(p) ==
    /\ pc[p] = "deleteManaged"
    /\ LET o == opts[p]
           managedImages == GetManagedImages(Tags(stagesRepo))
           r == rmManagedImages(stagesRepo, managedImages, o.DryRun, env.undeletableTags)
           err == IF env.fail[p] = "managed" THEN "get managed images failed" ELSE r.err
       IN  /\ stagesRepo' = IF env.fail[p] = "managed" THEN stagesRepo ELSE r.repo
           /\ log' = [log EXCEPT ![p] =
                @ \o <<LogEntry("list", "managed-images", << >>, {}, {}, FALSE, holdsLock(p))>>
                  \o (IF env.fail[p] = "managed" \/ Len(managedImages) = 0 THEN << >>
                      ELSE <<LogEntry("rm", "managed-images", << >>, {},
                                 {makeRepoManagedImageRecord(managedImages[k]) :
                                     k \in 1..Len(managedImages)},
                                 ~o.DryRun, holdsLock(p))>>)]
           /\ loc' = [loc EXCEPT ![p].err = err]
    /\ pc' = [pc EXCEPT ![p] = "releaseHost"]
    /\ UNCHANGED <<imagesRepo, env, dlock, hostLock, kind, opts>>

\* The steps of a purge.
PurgeStep(p) ==
    \/ ImagesPurge(p)
    \/ DeleteStages(p)
    \/ DeleteManagedImages(p)

Next == \E p \in Procs : CleanupStep(p) \/ PurgeStep(p)

\* The invocations of the concurrent runs: what each is and how it is set.
InvocationChoices ==
    {[kind |-> "cleanup", opts |-> ImagesCleanupOptions(mode, dry, FALSE, FALSE, PolicyLimitOne)] :
        mode \in {"retention", "history", "v12"}, dry \in BOOLEAN}
    \cup {[kind |-> k, opts |-> PurgeOptions(dry)] :
            k \in {"purge", "stagesPurge"}, dry \in BOOLEAN}

\* What troubles the first invocation: a failure of the environment, or an
\* image or a record the registry refuses to delete.
TroubleChoices ==
    {[fail |-> f, images |-> {}, tags |-> {}] : f \in FailPoints}
    \cup {[fail |-> "none", images |-> {2}, tags |-> {}],
          [fail |-> "none", images |-> {3}, tags |-> {}],
          [fail |-> "none", images |-> {}, tags |-> {makeRepoManagedImageRecord(NameB)}],
          [fail |-> "none", images |-> {}, tags |-> {StageImageTag(SigS2, 12)}],
          [fail |-> "none", images |-> {},
           tags |-> {makeRepoImageMetadataByCommitImageRecord(NameA, CommitC1)}]}

\* Two invocations on one project, from one host.
Init ==
    /\ InitCommon
    /\ stagesRepo = BaseEntries \o BaseMetadata
    /\ \E i1 \in InvocationChoices,
          i2 \in {i \in InvocationChoices : ~i.opts.DryRun \/ i.kind = "purge"} :
        /\ kind = [p \in Procs |-> IF p = "p1" THEN i1.kind ELSE i2.kind]
        /\ opts = [p \in Procs |-> IF p = "p1" THEN i1.opts ELSE i2.opts]
    /\ \E t \in TroubleChoices, f2 \in {"none", "lock"} :
        env = Environment({2, 6}, {<<"v", "1">>}, {},
                          CommitStates("exists", "missing", "exists"),
                          BaseRefs, t.images, t.tags,
                          [p \in Procs |-> IF p = "p1" THEN t.fail ELSE f2])
    /\ pc = [p \in Procs |-> "start"]

Spec == Init /\ [][Next]_vars

\* The first invocation of the fair runs, one for each way out of it: what it
\* is, how it is set, where the environment fails it and which images the
\* registry refuses to delete.
FairCases ==
    LET cleanup(mode, gn) ==
            ImagesCleanupOptions(mode, FALSE, FALSE, gn, PolicyLimitOne)
        case(k, o, f, ui) == [kind |-> k, opts |-> o, fail |-> f, images |-> ui]
    IN  {case("cleanup", cleanup("retention", FALSE), f, {}) :
            f \in {"none", "lock", "hostLock", "list", "kube", "gitTags", "gitBranches"}}
        \cup {case("cleanup", cleanup("history", FALSE), f, {}) :
                f \in {"none", "lock", "hostLock", "tags", "plainOpen", "refs", "scan"}}
        \cup {case("cleanup", cleanup("retention", TRUE), "none", {}),
              case("cleanup", cleanup("retention", FALSE), "none", {1})}
        \cup {case("purge", PurgeOptions(FALSE), f, {}) :
                f \in {"none", "lock", "hostLock", "list", "tags", "managed"}}
        \cup {case("stagesPurge", PurgeOptions(FALSE), f, {}) :
                f \in {"none", "hostLock", "tags", "managed"}}

\* Two invocations on a small project: the first any of FairCases, the second
\* a git-history cleanup or a stages purge that nothing fails.
InitFair ==
    /\ imagesRepo = {1, 3, 6, 7}
    /\ dlock = [p \in Procs |-> ""]
    /\ hostLock = [n \in HostLockNames |-> NoProc]
    /\ loc = [p \in Procs |-> LocInit]
    /\ log = [p \in Procs |-> << >>]
    /\ stagesRepo = <<StageEntry(SigS1, 7), ManagedEntry(NameA),
                      MetadataEntry(NameA, CommitC2, "sigB")>>
    /\ \E c \in FairCases,
          i2 \in {i \in InvocationChoices :
                     /\ ~i.opts.DryRun
                     /\ i.kind \in {"cleanup", "stagesPurge"}
                     /\ i.kind = "cleanup" => i.opts.GitHistoryBasedCleanup} :
        /\ kind = [p \in Procs |-> IF p = "p1" THEN c.kind ELSE i2.kind]
        /\ opts = [p \in Procs |-> IF p = "p1" THEN c.opts ELSE i2.opts]
        /\ env = Environment({2, 6}, {}, {},
                             CommitStates("exists", "missing", "exists"),
                             BaseRefs, c.images, {},
                             [p \in Procs |-> IF p = "p1" THEN c.fail ELSE "none"])
    /\ pc = [p \in Procs |-> "start"]

\* An invocation is a process of the operating system: one that can take a
\* step takes it.
FairSpec ==
    InitFair /\ [][Next]_vars /\ \A p \in Procs : WF_vars(CleanupStep(p) \/ PurgeStep(p))

\* The cleanups that are run twice: retention over the policies and the local
\* git repository, git-history over the commits, the references and the
\* metadata, and cleanups the registry refuses a deletion.
TwiceCases ==
    {[env |-> [Environment({2, 6}, gt, {<<"f", "/", "X">>}, cs, {}, {}, {}, OnlyP1("none"))
                   EXCEPT !.later = [p \in Procs |-> IF p = "p2" THEN d ELSE 0]],
      opts |-> ImagesCleanupOptions("retention", FALSE, FALSE, FALSE, pol),
      metadata |-> << >>] :
        gt \in {{}, {<<"v", "1">>}}, cs \in {CommitStates("missing", "exists", "exists")},
        pol \in PolicyChoices, d \in 0..MaxLater}
    \cup
    {[env |-> Environment(D, {<<"v", "1">>}, {}, cs, refs, {}, {}, OnlyP1("none")),
      opts |-> ImagesCleanupOptions(mode, FALSE, FALSE, FALSE, PolicyLimitOne),
      metadata |-> md] :
        D \in {{2, 6}, {3, 8, 10}}, cs \in HistoryCommitStateChoices, refs \in RefChoices,
        mode \in {"history", "v12"}, md \in MetadataChoices}
    \cup
    {[env |-> Environment({2, 6}, {<<"v", "1">>}, {}, AllExist, BaseRefs, ui, ut,
                          OnlyP1("none")),
      opts |-> ImagesCleanupOptions(mode, FALSE, wk, FALSE, PolicyLimitOne),
      metadata |-> BaseMetadata] :
        ui \in {{}, {3}, {7}},
        ut \in {{}, {makeRepoImageMetadataByCommitImageRecord(NameA, CommitC1)}},
        mode \in {"retention", "history", "v12"}, wk \in BOOLEAN}

\* ImagesCleanup invoked twice with the same options on one project: the first
\* time as a dry run or for real, the second time for real, at once or a tick
\* of the clock later.
InitTwice ==
    /\ InitCommon
    /\ \E c \in TwiceCases, dry \in BOOLEAN :
        /\ env = c.env
        /\ stagesRepo = BaseEntries \o c.metadata
        /\ opts = [p \in Procs |->
                      IF p = "p1" THEN [c.opts EXCEPT !.DryRun = dry] ELSE c.opts]
    /\ kind = [p \in Procs |-> "cleanup"]
    /\ pc = [p \in Procs |-> "start"]

\* The second invocation is started when the first has returned.
NextTwice ==
    \E p \in Procs : (p = "p2" => pc["p1"] = "done") /\ CleanupStep(p)

\* Two images cleanups in a row.
SpecTwice == InitTwice /\ [][NextTwice]_vars


\* -------------------------------------------------------------------------
\* The tag schema read back: the enumerations of the stages storage applied to
\* a tag of the repo, and the constructors applied to what they return
\* -------------------------------------------------------------------------

\* The longest tag body, in characters, the schema is read back from.
MaxTagLen == 4

\* The characters of the tag bodies: a word character, the separator, and the
\* digits zero and non-zero.
TagChars == {"s", "-", "0", "7"}

\* The character sequences of at most n characters.
TagBodies(n) == UNION {[1..k -> TagChars] : k \in 0..n}

Slash == <<"_", "_", "s", "l", "a", "s", "h", "_", "_">>

\* What follows the prefix of the managed-image records of the repo.
ManagedSuffixes ==
    {<< >>, <<"s">>, Slash, <<"s">> \o Slash \o <<"s">>, <<"s">> \o Slash,
     <<"_", "_", "p", "l", "u", "s", "_", "_">>, <<"_", "_", "s">>,
     NamelessImageRecordTag, <<"S">>, <<"0", "7">>}

\* The tags the repo is read with: a Docker tag begins with a word character.
SchemaTags ==
    {t \in TagBodies(MaxTagLen) : Len(t) > 0 /\ t[1] # "-"}
    \cup {RepoClientIDRecrod_ImageTagPrefix \o b : b \in TagBodies(MaxTagLen)}
    \cup {RepoManagedImageRecord_ImageTagPrefix \o s : s \in ManagedSuffixes}

\* fmt.Sprintf("client-id-%s-%d", rec.ClientID, rec.TimestampMillisec): the tag
\* part of the image name PostClientIDRecord builds.
ClientIDRecordTag(rec) ==
    RepoClientIDRecrod_ImageTagPrefix \o rec.ClientID \o <<"-">>
        \o FormatInt(rec.TimestampMillisec)

\* The variant that splits the tag without its prefix at its first '-'.
clientIDRecordsOfTagSplitAtFirst(tag) ==
    IF ~HasPrefix(tag, RepoClientIDRecrod_ImageTagPrefix) THEN << >>
    ELSE LET tagWithoutPrefix == TrimPrefix(tag, RepoClientIDRecrod_ImageTagPrefix)
             dataParts == SplitN2(tagWithoutPrefix, "-")
         IN  IF Len(dataParts) # 2 THEN << >>
             ELSE IF ~ParseIntOk(dataParts[2]) THEN << >>
                  ELSE <<[ClientID |-> dataParts[1],
                          TimestampMillisec |-> ParseInt(dataParts[2])]>>

\* What the loop of GetClientIDRecords makes of one tag: the record, or nothing.
clientIDRecordsOfTag(tag) ==
    IF ~HasPrefix(tag, RepoClientIDRecrod_ImageTagPrefix) THEN << >>
    ELSE LET tagWithoutPrefix == TrimPrefix(tag, RepoClientIDRecrod_ImageTagPrefix)
             dataParts == SplitN2(Reverse(tagWithoutPrefix), "-")
         IN  IF Len(dataParts) # 2 THEN << >>
             ELSE LET clientID == Reverse(dataParts[2])
                      timestampMillisecStr == Reverse(dataParts[1])
                  IN  IF ~ParseIntOk(timestampMillisecStr) THEN << >>
                      ELSE <<[ClientID |-> clientID,
                              TimestampMillisec |-> ParseInt(timestampMillisecStr)]>>

RECURSIVE GetClientIDRecords(_)
\* The client-id records of the tags, in tag-list order.
GetClientIDRecords(tags) ==
    IF Len(tags) = 0 THEN << >>
    ELSE clientIDRecordsOfTag(Head(tags)) \o GetClientIDRecords(Tail(tags))

\* DockerRegistry.PushImage of a record image unless it exists.
PushUnlessExists(repo, tag) ==
    IF TagExists(repo, tag) THEN repo ELSE Append(repo, RepoEntry(tag, TRUE, {}))

RECURSIVE PushAll(_, _)
PushAll(repo, tags) ==
    IF Len(tags) = 0 THEN repo ELSE PushAll(PushUnlessExists(repo, Head(tags)), Tail(tags))

\* AddManagedImage(imageName): the tag it pushes unless it exists; none for a
\* name validateImageName refuses.
AddManagedImage(imageName) ==
    IF ~validateImageNameOk(imageName) THEN << >>
    ELSE <<makeRepoManagedImageRecord(imageName)>>

\* One repo with one tag, read by one invocation.
InitSchema ==
    /\ InitCommon
    /\ \E t \in SchemaTags : stagesRepo = <<RepoEntry(t, TRUE, {})>>
    /\ env = Environment({}, {}, {}, AllExist, {}, {}, {}, OnlyP1("none"))
    /\ opts = [p \in Procs |-> PurgeOptions(FALSE)]
    /\ kind = [p \in Procs |-> IF p = "p1" THEN "tags" ELSE "idle"]
    /\ pc = [p \in Procs |-> IF p = "p1" THEN "start" ELSE "done"]

\* GetAllStages: the stage ids of the repo's tags; accepted are the tags that
\* gave one.
ReadAllStages(p) ==
    /\ kind[p] = "tags" /\ pc[p] = "start"
    /\ pc' = [pc EXCEPT ![p] = "stages"]
    /\ loc' = [loc EXCEPT
                 ![p].decoded = GetAllStages(Tags(stagesRepo)),
                 ![p].accepted = SelectSeq(Tags(stagesRepo),
                                           LAMBDA t : Len(stageIDsOfTag(t)) # 0)]
    /\ UNCHANGED <<imagesRepo, stagesRepo, env, dlock, hostLock, kind, opts, log>>

\* GetManagedImages: the image names of the repo's managed-image records.
ReadManagedImages(p) ==
    /\ kind[p] = "tags" /\ pc[p] = "start"
    /\ pc' = [pc EXCEPT ![p] = "managed"]
    /\ loc' = [loc EXCEPT
                 ![p].decoded = GetManagedImages(Tags(stagesRepo)),
                 ![p].accepted = SelectSeq(Tags(stagesRepo),
                                           LAMBDA t : Len(GetManagedImages(<<t>>)) # 0)]
    /\ UNCHANGED <<imagesRepo, stagesRepo, env, dlock, hostLock, kind, opts, log>>

\* GetClientIDRecords: the client-id records of the repo's tags.
ReadClientIDRecords(p) ==
    /\ kind[p] = "tags" /\ pc[p] = "start"
    /\ pc' = [pc EXCEPT ![p] = "clientIDs"]
    /\ loc' = [loc EXCEPT
                 ![p].decoded = GetClientIDRecords(Tags(stagesRepo)),
                 ![p].accepted = SelectSeq(Tags(stagesRepo),
                                           LAMBDA t : Len(clientIDRecordsOfTag(t)) # 0)]
    /\ UNCHANGED <<imagesRepo, stagesRepo, env, dlock, hostLock, kind, opts, log>>

\* ConstructStageImageName for each stage id read: the tags of the names.
ConstructStageImageNames(p) ==
    /\ kind[p] = "tags" /\ pc[p] = "stages"
    /\ pc' = [pc EXCEPT ![p] = "done"]
    /\ loc' = [loc EXCEPT
                 ![p].encoded = [k \in 1..Len(loc[p].decoded) |->
                                    StageImageTag(loc[p].decoded[k].Signature,
                                                  loc[p].decoded[k].UniqueID)]]
    /\ UNCHANGED <<imagesRepo, stagesRepo, env, dlock, hostLock, kind, opts, log>>

RECURSIVE AddManagedImagesOf(_)
\* The tags AddManagedImage makes of the image names, in their order.
AddManagedImagesOf(imageNames) ==
    IF Len(imageNames) = 0 THEN << >>
    ELSE AddManagedImage(Head(imageNames)) \o AddManagedImagesOf(Tail(imageNames))

\* AddManagedImage for each image name read: the record of each is pushed
\* unless it exists.
AddManagedImages(p) ==
    /\ kind[p] = "tags" /\ pc[p] = "managed"
    /\ LET tags == AddManagedImagesOf(loc[p].decoded)
       IN  /\ loc' = [loc EXCEPT ![p].encoded = tags]
           /\ stagesRepo' = PushAll(stagesRepo, tags)
    /\ pc' = [pc EXCEPT ![p] = "done"]
    /\ UNCHANGED <<imagesRepo, env, dlock, hostLock, kind, opts, log>>

\* PostClientIDRecord for each record read: the record image of each is
\* pushed unless it exists.
PostClientIDRecords(p) ==
    /\ kind[p] = "tags" /\ pc[p] = "clientIDs"
    /\ LET tags == [k \in 1..Len(loc[p].decoded) |-> ClientIDRecordTag(loc[p].decoded[k])]
       IN  /\ loc' = [loc EXCEPT ![p].encoded = tags]
           /\ stagesRepo' = PushAll(stagesRepo, tags)
    /\ pc' = [pc EXCEPT ![p] = "done"]
    /\ UNCHANGED <<imagesRepo, env, dlock, hostLock, kind, opts, log>>

NextSchema ==
    \E p \in Procs :
        \/ ReadAllStages(p)
        \/ ReadManagedImages(p)
        \/ ReadClientIDRecords(p)
        \/ ConstructStageImageNames(p)
        \/ AddManagedImages(p)
        \/ PostClientIDRecords(p)

\* The tags of a repo read back and constructed again.
SpecSchema == InitSchema /\ [][NextSchema]_vars

\* -------------------------------------------------------------------------
\* The record operations of the stages storage, called by a client twice in
\* a row
\* -------------------------------------------------------------------------

\* The longest image name a record is put for, in characters.
MaxNameLen == 110

\* A name of n characters with a '-' at every fifth.
LongName(n) == [i \in 1..n |-> IF i % 5 = 0 THEN "-" ELSE "a"]

\* A commit hash of 40 characters.
FullCommit == [i \in 1..40 |-> IF i % 2 = 0 THEN "0" ELSE "c"]

\* The image names the operations are called with.
RecordNames ==
    {<< >>, NameA, NameB, <<"a", "+", "b">>, <<"a", "-", "b">>, <<"A">>, <<"a", "/", "B">>,
     Slash, NamelessImageRecordTag}

\* The long names PutImageCommit is called with: around the length where the
\* tag of a full commit hash reaches the cap, and the longest.
LongNames ==
    {LongName(n) : n \in {61, 62, 63, MaxNameLen}}
    \cup {<<"b", "/">> \o LongName(n) : n \in {52, 53}}

RecordCommits == {CommitC1, FullCommit}

\* The signatures and unique ids stage names are constructed from.
StageSignatures == {<<"s">>, << >>, <<"s", "-", "t">>, <<"s", "-">>}
StageUniqueIDs == {1, 7, 70}

\* The client ids and timestamps client-id records are posted with.
ClientIDs == {<<"x">>, <<"x", "-", "y">>, << >>, <<"-">>}
ClientTimestamps == {0, 5, 12}

\* A stages storage repo with records of every kind, tags of no kind, and
\* metadata records with a ContentSignature label, with other labels only and
\* with no labels.
RecordsRepo ==
    <<StageEntry(SigS1, 7), ManagedEntry(NameA), RepoEntry(<<"n", "o", "i", "s", "e">>, TRUE, {}),
      RepoEntry(<<"d", "e", "f", "-", "x">>, TRUE, {}),
      RepoEntry(ClientIDRecordTag([ClientID |-> <<"x">>, TimestampMillisec |-> 5]), TRUE, {}),
      MetadataEntry(NameA, CommitC1, "sigA"), StageEntry(SigS1, 12),
      RepoEntry(makeRepoImageMetadataByCommitImageRecord(NameB, CommitC1), TRUE,
                {<<"other", "x">>}),
      RepoEntry(makeRepoImageMetadataByCommitImageRecord(NameA, FullCommit), FALSE, {}),
      StageEntry(SigS2, 9)>>

\* A call of the registry made by an operation.
RegCall(op, tag) == [op |-> op, tag |-> tag]

\* A call of a storage operation: its arguments, its error ("" for nil), what
\* it returned, and the registry calls it made, in order.
StorageCall(op, args, err, ret, reg) ==
    [op |-> op, args |-> args, err |-> err, ret |-> ret, reg |-> reg]

\* DockerRegistry.PushImage(fullImageName, opts): the tag with the labels of
\* opts, in place of the image the tag named.
PushImage(repo, tag, labels) ==
    LET k == TagIndex(repo, tag)
    IN  IF k = 0 THEN Append(repo, RepoEntry(tag, TRUE, labels))
        ELSE [repo EXCEPT ![k] = RepoEntry(tag, TRUE, labels)]

\* AddManagedImage(imageName): [call, repo].
AddManagedImageCall(repo, imageName) ==
    LET tag == makeRepoManagedImageRecord(imageName)
        args == <<imageName>>
    IN  IF ~validateImageNameOk(imageName)
        THEN [call |-> StorageCall("AddManagedImage", args, "", << >>, << >>), repo |-> repo]
        ELSE IF TagExists(repo, tag)
        THEN [call |-> StorageCall("AddManagedImage", args, "", << >>,
                                   <<RegCall("exists", tag)>>),
              repo |-> repo]
        ELSE [call |-> StorageCall("AddManagedImage", args, "", << >>,
                                   <<RegCall("exists", tag), RegCall("push", tag)>>),
              repo |-> PushImage(repo, tag, {})]

\* PostClientIDRecord(rec): [call, repo].
PostClientIDRecordCall(repo, rec) ==
    LET tag == ClientIDRecordTag(rec)
        args == <<rec>>
    IN  IF TagExists(repo, tag)
        THEN [call |-> StorageCall("PostClientIDRecord", args, "", << >>,
                                   <<RegCall("exists", tag)>>),
              repo |-> repo]
        ELSE [call |-> StorageCall("PostClientIDRecord", args, "", << >>,
                                   <<RegCall("exists", tag), RegCall("push", tag)>>),
              repo |-> PushImage(repo, tag, {})]

\* PutImageCommit(imageName, commit, metadata): [call, repo].
PutImageCommitCall(repo, imageName, commit, contentSignature) ==
    LET tag == makeRepoImageMetadataByCommitImageRecord(imageName, commit)
    IN  [call |-> StorageCall("PutImageCommit", <<imageName, commit, contentSignature>>, "",
                              << >>, <<RegCall("push", tag)>>),
         repo |-> PushImage(repo, tag, {<<ContentSignatureLabel, contentSignature>>})]

\* The registry calls of RmManagedImage and RmImageCommit for the record tag.
RmRegCalls(repo, tag) ==
    IF TagExists(repo, tag) THEN <<RegCall("get", tag), RegCall("delete", tag)>>
    ELSE <<RegCall("get", tag)>>

\* RmManagedImage(imageName): [call, repo].
RmManagedImageCall(repo, imageName, undeletableTags) ==
    LET r == RmManagedImage(repo, imageName, undeletableTags)
    IN  [call |-> StorageCall("RmManagedImage", <<imageName>>, r.err, << >>,
                              RmRegCalls(repo, makeRepoManagedImageRecord(imageName))),
         repo |-> r.repo]

\* RmImageCommit(imageName, commit): [call, repo].
RmImageCommitCall(repo, imageName, commit, undeletableTags) ==
    LET r == RmImageCommit(repo, imageName, commit, undeletableTags)
    IN  [call |-> StorageCall("RmImageCommit", <<imageName, commit>>, r.err, << >>,
                              RmRegCalls(repo, makeRepoImageMetadataByCommitImageRecord(
                                                   imageName, commit))),
         repo |-> r.repo]

\* GetImageMetadataByCommit(imageName, commit): [call, repo]; what it returns
\* is << >> for nil and a list of the one ImageMetadata otherwise.
GetImageMetadataByCommitCall(repo, imageName, commit) ==
    LET r == GetImageMetadataByCommit(repo, imageName, commit)
        tag == makeRepoImageMetadataByCommitImageRecord(imageName, commit)
    IN  [call |-> StorageCall("GetImageMetadataByCommit", <<imageName, commit>>, "",
                              IF r.found THEN <<[ContentSignature |-> r.ContentSignature]>>
                              ELSE << >>,
                              <<RegCall("get", tag)>>),
         repo |-> repo]

\* One repo, one client about to call the storage.
InitStorage ==
    /\ InitCommon
    /\ stagesRepo \in {<< >>, RecordsRepo}
    /\ \E ut \in {{}, {makeRepoManagedImageRecord(NameA),
                       makeRepoImageMetadataByCommitImageRecord(NameA, CommitC1)}} :
          env = Environment({}, {}, {}, AllExist, {}, {}, ut, OnlyP1("none"))
    /\ opts = [p \in Procs |-> PurgeOptions(FALSE)]
    /\ kind = [p \in Procs |-> IF p = "p1" THEN "storage" ELSE "idle"]
    /\ pc = [p \in Procs |-> IF p = "p1" THEN "call" ELSE "done"]

\* Invocation p may call the storage: it has made no call or one.
MayCall(p) == kind[p] = "storage" /\ pc[p] \in {"call", "again"}

\* The call r.call has returned and has left the repo as r.repo.
Returned(p, r) ==
    /\ pc' = [pc EXCEPT ![p] = IF pc[p] = "call" THEN "again" ELSE "done"]
    /\ loc' = [loc EXCEPT ![p].calls = Append(@, r.call)]
    /\ stagesRepo' = r.repo
    /\ UNCHANGED <<imagesRepo, env, dlock, hostLock, kind, opts, log>>

CallAddManagedImage(p) ==
    /\ MayCall(p)
    /\ \E n \in RecordNames : Returned(p, AddManagedImageCall(stagesRepo, n))

CallRmManagedImage(p) ==
    /\ MayCall(p)
    /\ \E n \in RecordNames :
           Returned(p, RmManagedImageCall(stagesRepo, n, env.undeletableTags))

CallGetManagedImages(p) ==
    /\ MayCall(p)
    /\ Returned(p, [call |-> StorageCall("GetManagedImages", << >>, "",
                                         GetManagedImages(Tags(stagesRepo)),
                                         <<RegCall("tags", << >>)>>),
                    repo |-> stagesRepo])

\* The image names metadata records are put and read for: the empty name,
\* short names, a name that holds the word a '/' is slugged to, and LongNames.
CommitNames == {<< >>, NameA, NameB, <<"b">> \o Slash \o <<"x">>} \cup LongNames

CallPutImageCommit(p) ==
    /\ MayCall(p)
    /\ \E n \in CommitNames, c \in RecordCommits :
           Returned(p, PutImageCommitCall(stagesRepo, n, c, "sigB"))

CallGetImageCommits(p) ==
    /\ MayCall(p)
    /\ \E n \in CommitNames :
           Returned(p, [call |-> StorageCall("GetImageCommits", <<n>>, "",
                                             GetImageCommits(Tags(stagesRepo), n),
                                             <<RegCall("tags", << >>)>>),
                        repo |-> stagesRepo])

CallRmImageCommit(p) ==
    /\ MayCall(p)
    /\ \E n \in {NameA, NameB}, c \in RecordCommits :
           Returned(p, RmImageCommitCall(stagesRepo, n, c, env.undeletableTags))

CallGetImageMetadataByCommit(p) ==
    /\ MayCall(p)
    /\ \E n \in CommitNames, c \in RecordCommits :
           Returned(p, GetImageMetadataByCommitCall(stagesRepo, n, c))

CallPostClientIDRecord(p) ==
    /\ MayCall(p)
    /\ \E id \in ClientIDs, ts \in ClientTimestamps :
           Returned(p, PostClientIDRecordCall(stagesRepo,
                                              [ClientID |-> id, TimestampMillisec |-> ts]))

CallGetClientIDRecords(p) ==
    /\ MayCall(p)
    /\ Returned(p, [call |-> StorageCall("GetClientIDRecords", << >>, "",
                                         GetClientIDRecords(Tags(stagesRepo)),
                                         <<RegCall("tags", << >>)>>),
                    repo |-> stagesRepo])

CallGetAllStages(p) ==
    /\ MayCall(p)
    /\ Returned(p, [call |-> StorageCall("GetAllStages", << >>, "",
                                         GetAllStages(Tags(stagesRepo)),
                                         <<RegCall("tags", << >>)>>),
                    repo |-> stagesRepo])

\* The signatures the stages are asked for.
AskedSignatures == {SigS1, SigS2, <<"s">>, <<"x">>}

CallGetStagesBySignature(p) ==
    /\ MayCall(p)
    /\ \E s \in AskedSignatures :
           Returned(p, [call |-> StorageCall("GetStagesBySignature", <<s>>, "",
                                             GetStagesBySignature(Tags(stagesRepo), s),
                                             <<RegCall("tags", << >>)>>),
                        repo |-> stagesRepo])

\* ConstructStageImageName(signature, uniqueID): the tag of the name.
CallConstructStageImageName(p) ==
    /\ MayCall(p)
    /\ \E s \in StageSignatures, u \in StageUniqueIDs :
           Returned(p, [call |-> StorageCall("ConstructStageImageName", <<s, u>>, "",
                                             StageImageTag(s, u), << >>),
                        repo |-> stagesRepo])

\* getSignatureAndUniqueIDFromRepoStageImageTag of the tag of the name just
\* constructed.
CallGetSignatureAndUniqueID(p) ==
    /\ MayCall(p) /\ pc[p] = "again"
    /\ loc[p].calls[1].op = "ConstructStageImageName"
    /\ LET tag == loc[p].calls[1].ret
           r == getSignatureAndUniqueIDFromRepoStageImageTag(tag)
       IN  Returned(p, [call |-> StorageCall("getSignatureAndUniqueIDFromRepoStageImageTag",
                                             <<tag>>, r.err,
                                             IF r.err = "" THEN <<r.signature, r.uniqueID>>
                                             ELSE << >>,
                                             << >>),
                        repo |-> stagesRepo])

NextStorage ==
    \E p \in Procs :
        \/ CallAddManagedImage(p)
        \/ CallRmManagedImage(p)
        \/ CallGetManagedImages(p)
        \/ CallPutImageCommit(p)
        \/ CallGetImageCommits(p)
        \/ CallRmImageCommit(p)
        \/ CallGetImageMetadataByCommit(p)
        \/ CallPostClientIDRecord(p)
        \/ CallGetClientIDRecords(p)
        \/ CallGetAllStages(p)
        \/ CallGetStagesBySignature(p)
        \/ CallConstructStageImageName(p)
        \/ CallGetSignatureAndUniqueID(p)

\* Two calls of the stages storage in a row.
SpecStorage == InitStorage /\ [][NextStorage]_vars

\* -------------------------------------------------------------------------
\* One purge on repos with managed-image tags of every shape
\* -------------------------------------------------------------------------

\* What follows the managed-image prefix in the tags of the repo: slugs that
\* AddManagedImage writes, a suffix with an upper-case character, and none.
PurgeSuffixes == {<<"s">>, Slash, NamelessImageRecordTag, <<"S">>, << >>}

\* The repos a purge is run on: two stages, and the records of some suffixes.
PurgeRepos ==
    {<<StageEntry(SigS1, 7)>>
        \o [k \in 1..Cardinality(S) |->
               RepoEntry(RepoManagedImageRecord_ImageTagPrefix \o SetToSeq(S)[k], TRUE, {})]
        \o <<StageEntry(SigS2, 12)>> : S \in SUBSET PurgeSuffixes}

\* One purge or stages purge, alone: nothing fails, the listing of the
\* managed images fails, or the registry refuses to delete one record.
InitPurge ==
    /\ InitCommon
    /\ stagesRepo \in PurgeRepos
    /\ \E t \in {[fail |-> "none", tags |-> {}], [fail |-> "managed", tags |-> {}],
                 [fail |-> "none",
                  tags |-> {RepoManagedImageRecord_ImageTagPrefix \o Slash}]} :
          env = Environment({}, {}, {}, AllExist, {}, {}, t.tags, OnlyP1(t.fail))
    /\ \E k \in {"purge", "stagesPurge"}, dry \in BOOLEAN :
          /\ kind = [p \in Procs |-> IF p = "p1" THEN k ELSE "idle"]
          /\ opts = [p \in Procs |-> PurgeOptions(dry)]
    /\ pc = [p \in Procs |-> IF p = "p1" THEN "start" ELSE "done"]

NextPurge ==
    \E p \in Procs :
        \/ LockStagesAndImages(p)
        \/ AcquireHostLock(p)
        \/ PurgeStep(p)
        \/ ReleaseHostLock(p)
        \/ Unlock(p)

SpecPurge == InitPurge /\ [][NextPurge]_vars

\* -------------------------------------------------------------------------
\* The loops of deletes turn by turn, and the context of the caller cancelled
\* -------------------------------------------------------------------------

\* A call of the registry made with context ctx: the result r of the call, or
\* the error of the context and no effect when the context is cancelled.
withContext(cancelled, r, repo) ==
    IF cancelled THEN [err |-> "context canceled", repo |-> repo] ELSE r

\* The caller cancels the context while a loop of deletes is running.
Cancel(p) ==
    /\ pc[p] \in {"managedLoop", "metadataLoop"}
    /\ ~env.cancelled
    /\ env' = [env EXCEPT !.cancelled = TRUE]
    /\ log' = [log EXCEPT ![p] =
                  Append(@, LogEntry("cancel", pc[p], << >>, {}, {}, FALSE, holdsLock(p)))]
    /\ UNCHANGED <<imagesRepo, stagesRepo, dlock, hostLock, kind, opts, pc, loc>>

\* "Deleting managed images", the call of GetManagedImages before the loop.
ListManagedImages(p) ==
    /\ pc[p] = "deleteManaged"
    /\ LET err == IF env.fail[p] = "managed" THEN "get managed images failed" ELSE ""
       IN  /\ loc' = [loc EXCEPT ![p].err = err,
                                 ![p].pending = IF err # "" THEN << >>
                                                ELSE GetManagedImages(Tags(stagesRepo))]
           /\ pc' = [pc EXCEPT ![p] = IF err # "" THEN "releaseHost" ELSE "managedLoop"]
    /\ log' = [log EXCEPT ![p] =
                  Append(@, LogEntry("list", "managed-images", << >>, {}, {}, FALSE,
                                     holdsLock(p)))]
    /\ UNCHANGED <<imagesRepo, stagesRepo, env, dlock, hostLock, kind, opts>>

\* One turn of the loop of "Deleting managed images": under DryRun the record
\* is logged only; RmManagedImage is called otherwise and its error returned.
RmManagedImageTurn(p) ==
    /\ pc[p] = "managedLoop"
    /\ IF Len(loc[p].pending) = 0
       THEN /\ pc' = [pc EXCEPT ![p] = "releaseHost"]
            /\ UNCHANGED <<stagesRepo, loc, log>>
       ELSE LET managedImage == Head(loc[p].pending)
                r == withContext(env.cancelled,
                                 RmManagedImage(stagesRepo, managedImage, env.undeletableTags),
                                 stagesRepo)
                err == IF opts[p].DryRun THEN "" ELSE r.err
            IN  /\ stagesRepo' = IF opts[p].DryRun THEN stagesRepo ELSE r.repo
                /\ log' = [log EXCEPT ![p] =
                       Append(@, LogEntry("rm", "managed-images", << >>, {},
                                          {makeRepoManagedImageRecord(managedImage)},
                                          ~opts[p].DryRun, holdsLock(p)))]
                /\ loc' = [loc EXCEPT ![p].err = err, ![p].pending = Tail(@)]
                /\ pc' = [pc EXCEPT ![p] = IF err # "" THEN "releaseHost" ELSE "managedLoop"]
    /\ UNCHANGED <<imagesRepo, env, dlock, hostLock, kind, opts>>

\* "Deleting unused images metadata", the call of getImageUnusedCommitHashes
\* before the loops.
ListUnusedCommits(p) ==
    /\ pc[p] = "metadata"
    /\ LET unused == getImageUnusedCommitHashes(loc[p].resultRepoImages,
                                                loc[p].imageCommitHashImageMetadata)
           pairs == {<<n, h>> : n \in DOMAIN unused, h \in UNION {unused[m] : m \in DOMAIN unused}}
       IN  loc' = [loc EXCEPT ![p].pending = SetToSeq({x \in pairs : x[2] \in unused[x[1]]})]
    /\ pc' = [pc EXCEPT ![p] = "metadataLoop"]
    /\ UNCHANGED <<imagesRepo, stagesRepo, env, dlock, hostLock, kind, opts, log>>

\* One turn of the loops of "Deleting unused images metadata": under DryRun
\* the commit is logged only; RmImageCommit is called otherwise, its error is
\* warned of and the loop goes on.
RmImageCommitTurn(p) ==
    /\ pc[p] = "metadataLoop"
    /\ IF Len(loc[p].pending) = 0
       THEN /\ pc' = [pc EXCEPT ![p] = "finish"]
            /\ UNCHANGED <<stagesRepo, loc, log>>
       ELSE LET x == Head(loc[p].pending)
                r == withContext(env.cancelled,
                                 RmImageCommit(stagesRepo, x[1], x[2], env.undeletableTags),
                                 stagesRepo)
            IN  /\ stagesRepo' = IF opts[p].DryRun THEN stagesRepo ELSE r.repo
                /\ log' = [log EXCEPT ![p] =
                       Append(@, LogEntry("rm", "metadata", << >>, {},
                                          {makeRepoImageMetadataByCommitImageRecord(x[1], x[2])},
                                          ~opts[p].DryRun, holdsLock(p)))]
                /\ loc' = [loc EXCEPT ![p].pending = Tail(@)]
                /\ UNCHANGED pc
    /\ UNCHANGED <<imagesRepo, env, dlock, hostLock, kind, opts>>

\* The repos a stages purge is cancelled on.
CancelRepos ==
    {<<StageEntry(SigS1, 7)>> \o [k \in 1..n |-> ManagedEntry(<<NameA, NameB>>[k])] :
        n \in 0..2}

\* One stages purge or one git-history-based cleanup, alone, that nothing
\* fails.
InitCancel ==
    /\ InitCommon
    /\ pc = [p \in Procs |-> IF p = "p1" THEN "start" ELSE "done"]
    /\ \E dry \in BOOLEAN :
        \/ /\ kind = [p \in Procs |-> IF p = "p1" THEN "stagesPurge" ELSE "idle"]
           /\ opts = [p \in Procs |-> PurgeOptions(dry)]
           /\ stagesRepo \in CancelRepos
           /\ env = Environment({}, {}, {}, AllExist, {}, {}, {}, OnlyP1("none"))
        \/ /\ kind = [p \in Procs |-> IF p = "p1" THEN "cleanup" ELSE "idle"]
           /\ \E mode \in Modes \ {"retention"}, cs \in HistoryCommitStateChoices :
                /\ opts = [p \in Procs |->
                             ImagesCleanupOptions(mode, dry, FALSE, FALSE, PolicyLimitOne)]
                /\ env = Environment({2, 6}, {<<"v", "1">>}, {}, cs, BaseRefs, {}, {},
                                     OnlyP1("none"))
           /\ stagesRepo = BaseEntries \o BaseMetadata

NextCancel ==
    \E p \in Procs :
        \/ LockStagesAndImages(p)
        \/ AcquireHostLock(p)
        \/ InitRepoImagesData(p)
        \/ SkipUsedInKubernetes(p)
        \/ PrepareGitHistoryBasedCleanup(p)
        \/ GitHistoryBasedCleanupOfImage(p)
        \/ ListUnusedCommits(p)
        \/ RmImageCommitTurn(p)
        \/ FinishRun(p)
        \/ DeleteStages(p)
        \/ ListManagedImages(p)
        \/ RmManagedImageTurn(p)
        \/ Cancel(p)
        \/ ReleaseHostLock(p)
        \/ Unlock(p)

SpecCancel == InitCancel /\ [][NextCancel]_vars

\* -------------------------------------------------------------------------
\* The properties
\* -------------------------------------------------------------------------

\* The log entries of invocation p with operation op.
Entries(p, op) == {k \in DOMAIN log[p] : log[p][k].op = op}

\* The images invocation p has passed to a delete so far.
PassedToDelete(p) == UNION {log[p][k].imgs : k \in Entries(p, "delete")}

\* The strings the Kubernetes probe returns: the container images of every
\* workload of every kind in every context.
ProbeOutput ==
    UNION {Range(env.kube[c][k]) : c \in DOMAIN env.kube, k \in Range(WorkloadKinds)}

\* C1: in a cleanup run with Kubernetes probing enabled (WithoutKube false), in
\* retention mode and in git-history mode alike, no image whose
\* "Repository:Tag" string is among the strings the Kubernetes probe returns
\* is ever passed to a delete.
C1_DeployedNeverPassedToDelete ==
    \A p \in Procs :
        kind[p] = "cleanup" /\ ~opts[p].WithoutKube =>
            \A i \in PassedToDelete(p) : dockerImageName(i) \notin ProbeOutput

\* A git-history run with probing enabled has set deployed images of an image
\* name apart and has passed other images of that name to a delete.
C1_Witness ==
    \E p \in Procs :
        /\ kind[p] = "cleanup" /\ ~opts[p].WithoutKube /\ isHistoryMode(opts[p])
        /\ \E k \in Entries(p, "delete") :
              /\ log[p][k].imgs # {}
              /\ MapGet(loc[p].exceptedRepoImages, log[p][k].name) # {}
              /\ \E i \in ImageIds : dockerImageName(i) \in ProbeOutput


\* The log entries of invocation p that are registry deletes issued: images
\* deleted, or stages and records removed, outside a dry run.
IssuedDeletes(p) ==
    {k \in DOMAIN log[p] : log[p][k].op \in {"delete", "rm"} /\ log[p][k].issued}

\* C2: every registry delete issued by ImagesCleanup, StagesPurge and Purge is
\* issued while the invocation holds the distributed stages-and-images lock of
\* the project; when acquiring that lock fails the operation returns an error
\* and has issued no registry listing and no delete.
C2_DeletesUnderLock ==
    \A p \in Procs :
        /\ \A k \in IssuedDeletes(p) : log[p][k].locked
        /\ env.fail[p] = "lock" /\ pc[p] # "start" =>
               pc[p] = "done" /\ loc[p].err # "" /\ log[p] = << >>

\* One invocation has failed to take the lock and returned, the other has
\* issued a delete of images under the lock.
C2_Witness ==
    \E p, q \in Procs :
        /\ p # q
        /\ env.fail[p] = "lock" /\ pc[p] = "done" /\ loc[p].err # ""
        /\ \E k \in IssuedDeletes(q) : log[q][k].locked /\ log[q][k].imgs # {}


\* Invocation p is inside its enumerate-and-delete phase: LockStagesAndImages
\* has returned without error and the deferred Unlock has not yet run.
InPhase(p) == pc[p] \notin {"start", "done"}

\* Invocation p has started enumerating: it has listed the registry.
Enumerating(p) == Entries(p, "list") # {}

\* C3: two concurrent invocations (any mix of ImagesCleanup, StagesPurge and
\* Purge) on one project through one lock manager are never both inside their
\* enumerate-and-delete phase: when the second has started enumerating, the
\* first has released the distributed lock.
C3_NeverBothInPhase ==
    \A p, q \in Procs :
        p # q =>
            /\ ~(InPhase(p) /\ InPhase(q))
            /\ Enumerating(p) /\ Enumerating(q) => ~holdsLock(p) \/ ~holdsLock(q)

\* The first invocation has enumerated, deleted and returned; the second is
\* enumerating under the lock.
C3_Witness ==
    \E p, q \in Procs :
        /\ p # q
        /\ pc[p] = "done" /\ IssuedDeletes(p) # {} /\ ~holdsLock(p)
        /\ InPhase(q) /\ Enumerating(q) /\ holdsLock(q)


\* Invocation p holds a host lock.
holdsHostLock(p) == \E n \in HostLockNames : hostLock[n] = p

\* Invocation p is an images cleanup or a stages purge.
CleanupOrStagesPurge(p) == kind[p] \in {"cleanup", "stagesPurge"}

\* C4: in cleanup and in stages purge the distributed lock is acquired first
\* and the host lock second, and on every exit path (success, an error in any
\* phase, cleanup skipped) the host lock is released before the distributed
\* lock and both are eventually released: the host lock is only ever held
\* inside the distributed lock, and an invocation that holds the distributed
\* lock comes to hold neither.
C4_LocksNestedAndReleased ==
    \A p \in Procs :
        /\ [](CleanupOrStagesPurge(p) /\ holdsHostLock(p) => holdsLock(p))
        /\ (CleanupOrStagesPurge(p) /\ holdsLock(p))
               ~> (~holdsLock(p) /\ ~holdsHostLock(p))

\* A cleanup has taken both locks, listed the registry, failed, and has
\* returned holding neither lock.
C4_Witness ==
    \E p \in Procs :
        /\ kind[p] = "cleanup" /\ pc[p] = "done" /\ loc[p].err # ""
        /\ Enumerating(p)
        /\ ~holdsLock(p) /\ ~holdsHostLock(p)


\* The step taken is a step of invocation p.
StepOf(p) == pc'[p] # pc[p] \/ loc'[p] # loc[p] \/ log'[p] # log[p]

\* C5: with DryRun set, a cleanup run (retention mode and git-history mode,
\* including the metadata deletion phase) and a stages purge issue no delete
\* of any image, stage, managed-image record or per-commit metadata record and
\* no push: no step of such an invocation changes the images repo or the
\* stages storage, and none of its log entries is a delete issued.
C5_DryRunDeletesNothing ==
    [][\A p \in Procs :
          CleanupOrStagesPurge(p) /\ opts[p].DryRun /\ StepOf(p) =>
              /\ imagesRepo' = imagesRepo
              /\ stagesRepo' = stagesRepo
              /\ \A k \in DOMAIN log'[p] : ~log'[p][k].issued]_vars

\* A dry run of a git-history cleanup has gone through its image deletion and
\* its metadata deletion phase with something to delete in each, and the
\* images and the records are still there.
C5_Witness ==
    \E p \in Procs :
        /\ kind[p] = "cleanup" /\ opts[p].DryRun /\ isHistoryMode(opts[p])
        /\ pc[p] = "done" /\ loc[p].err = ""
        /\ \E k \in Entries(p, "delete") :
              log[p][k].imgs # {} /\ log[p][k].imgs \subseteq imagesRepo
        /\ \E k \in Entries(p, "rm") :
              /\ log[p][k].phase = "metadata"
              /\ \E t \in log[p][k].tags : TagExists(stagesRepo, t)


\* Invocation p is a purge or a stages purge, not a dry run, and has returned
\* without error.
PurgeSucceeded(p) ==
    /\ kind[p] \in {"purge", "stagesPurge"} /\ ~opts[p].DryRun
    /\ pc[p] = "done" /\ loc[p].err = ""

HistoryCleanupSucceeded(p) ==
    /\ kind[p] = "cleanup" /\ isHistoryMode(opts[p]) /\ ~opts[p].LocalGitNil
    /\ pc[p] = "done" /\ loc[p].err = ""

\* The images a cleanup fetches: the images repo holds ImageIds when the
\* cleanup starts, and no other invocation runs beside it.
Fetched == ImageIds

\* Image i carries a content-signature label that is in the kept set K of
\* invocation p: the signatures the scan of the references' history has
\* reported as reached for the image's name.
InKeptSet(p, i) ==
    /\ LabelOk(Info(i).Labels, WerfContentSignatureLabel)
    /\ contentSignatureOf(i) \in MapGet(loc[p].reached, Info(i).imageName)

\* Image i was excluded by invocation p because it is in use in Kubernetes.
ExcludedByKube(p, i) == ~opts[p].WithoutKube /\ dockerImageName(i) \in ProbeOutput

\* No per-commit metadata record invocation p has fetched for the image name
\* of i carries the content signature of i.
NoRelatedMetadata(p, i) ==
    LET metadata == loc[p].imageCommitHashImageMetadata
        n == Info(i).imageName
    IN  n \in DOMAIN metadata =>
            \A h \in DOMAIN metadata[n] : metadata[n][h] # contentSignatureOf(i)

\* C7 as stated: in git-history mode, after a successful cleanup run every
\* fetched image that was not deleted either carries a content-signature label
\* that is in the kept set K or was excluded because it is in use in
\* Kubernetes.
C7_SurvivorsKeptOrDeployed ==
    \A p \in Procs :
        HistoryCleanupSucceeded(p) =>
            \A i \in Fetched \ PassedToDelete(p) :
                InKeptSet(p, i) \/ ExcludedByKube(p, i)

\* C7, amended: in git-history mode, after a successful cleanup run every
\* fetched image that was not deleted either carries a content-signature label
\* that is in the kept set K, or was excluded because it is in use in
\* Kubernetes, or, when GitHistoryBasedCleanupV12 is not set, carries a
\* content signature that no per-commit metadata record of its image name
\* carries.
C7_SurvivorsKeptDeployedOrUnrelated ==
    \A p \in Procs :
        HistoryCleanupSucceeded(p) =>
            \A i \in Fetched \ PassedToDelete(p) :
                \/ InKeptSet(p, i)
                \/ ExcludedByKube(p, i)
                \/ ~opts[p].GitHistoryBasedCleanupV12 /\ NoRelatedMetadata(p, i)

\* A git-history cleanup without V12 has returned without error, has deleted
\* an image whose signature the scan did not reach, and has left an image
\* whose signature is in K, an image in use in Kubernetes and an image
\* without related metadata.
C7_Witness ==
    \E p \in Procs :
        /\ HistoryCleanupSucceeded(p)
        /\ ~opts[p].GitHistoryBasedCleanupV12
        /\ PassedToDelete(p) # {}
        /\ \E i \in Fetched \ PassedToDelete(p) : InKeptSet(p, i)
        /\ \E i \in Fetched \ PassedToDelete(p) :
              ExcludedByKube(p, i) /\ ~InKeptSet(p, i)
        /\ \E i \in Fetched \ PassedToDelete(p) :
              NoRelatedMetadata(p, i) /\ ~InKeptSet(p, i) /\ ~ExcludedByKube(p, i)


NonexistentPhases == {"nonexistent-git-tag", "nonexistent-git-branch", "nonexistent-git-commit"}

\* The kinds of entry of a log: the Kubernetes exclusion finished, a
\* nonexistent-primitive delete issued, a retention-policy or history-based
\* delete issued, a metadata delete issued.
IsExclusion(e) == e.op = "except"
IsImageDelete(e) == e.op = "delete" /\ e.issued
IsNonexistentDelete(e) == IsImageDelete(e) /\ e.phase \in NonexistentPhases
IsPolicyOrHistoryDelete(e) == IsImageDelete(e) /\ e.phase \notin NonexistentPhases
IsMetadataDelete(e) == e.op = "rm" /\ e.issued /\ e.phase = "metadata"

\* In the log of p no delete of images comes before the Kubernetes exclusion
\* has finished, when there is one.
ExclusionFirst(p) ==
    ~opts[p].WithoutKube =>
        \A k \in DOMAIN log[p] :
            IsImageDelete(log[p][k]) => \E j \in 1..(k - 1) : IsExclusion(log[p][j])

\* In the log of p no metadata delete comes before a delete of images.
MetadataLast(p) ==
    \A j, k \in DOMAIN log[p] :
        j < k => ~(IsMetadataDelete(log[p][j]) /\ IsImageDelete(log[p][k]))

\* C8 as stated: within one cleanup invocation the phases are strictly
\* ordered: no nonexistent-primitive delete is issued before the Kubernetes
\* exclusion has finished, no retention-policy or history-based delete is
\* issued before every nonexistent-primitive delete of the invocation has been
\* issued, and no metadata delete is issued before every image delete.
C8_PhasesStrictlyOrdered ==
    \A p \in Procs :
        kind[p] = "cleanup" =>
            /\ ExclusionFirst(p)
            /\ \A j, k \in DOMAIN log[p] :
                  j < k => ~(IsPolicyOrHistoryDelete(log[p][j])
                             /\ IsNonexistentDelete(log[p][k]))
            /\ MetadataLast(p)

\* C8, amended: within one cleanup invocation no delete of images is issued
\* before the Kubernetes exclusion has finished, for each image name no
\* retention-policy or history-based delete of images of that name is issued
\* before every nonexistent-primitive delete of images of that name, and no
\* metadata delete is issued before every image delete.
C8_PhasesOrderedPerImageName ==
    \A p \in Procs :
        kind[p] = "cleanup" =>
            /\ ExclusionFirst(p)
            /\ \A j, k \in DOMAIN log[p] :
                  j < k /\ log[p][j].name = log[p][k].name =>
                      ~(IsPolicyOrHistoryDelete(log[p][j])
                        /\ IsNonexistentDelete(log[p][k]))
            /\ MetadataLast(p)

\* A retention cleanup has finished the Kubernetes exclusion, then issued a
\* nonexistent-primitive delete and after it a retention-policy delete for
\* the images of one name.
C8_Witness ==
    \E p \in Procs :
        /\ kind[p] = "cleanup" /\ ~opts[p].WithoutKube
        /\ \E i, j, k \in DOMAIN log[p] :
              /\ i < j /\ j < k
              /\ IsExclusion(log[p][i])
              /\ IsNonexistentDelete(log[p][j])
              /\ IsPolicyOrHistoryDelete(log[p][k])
              /\ log[p][j].name = log[p][k].name


\* Invocation p is a cleanup that has run (it was not skipped for want of a
\* local git repository) and has returned without error.
CleanupSucceeded(p) ==
    /\ kind[p] = "cleanup" /\ ~opts[p].LocalGitNil
    /\ pc[p] = "done" /\ loc[p].err = ""

\* The tag-strategy label of image i is git-tag, git-branch or git-commit and
\* its meta-tag matches no slugged local git tag, no slugged remote branch, or
\* no existing commit respectively.
PrimitiveNonexistent(i) ==
    /\ strategyOk(i)
    /\ \/ strategyOf(i) = GitTag
          /\ ~repoImageMetaTagMatch(repoImageMetaTag(i), env.gitTags)
       \/ strategyOf(i) = GitBranch
          /\ ~repoImageMetaTagMatch(repoImageMetaTag(i), env.gitBranches)
       \/ strategyOf(i) = GitCommit
          /\ ~IsCommitExists(env, repoImageMetaTag(i)).exist

PolicyStrategies == {GitTag, GitCommit, StagesSignature}

\* The options of the policy of strategy st.
PolicyOptionsOf(policies, st) ==
    IF st = GitTag THEN GitTagPolicyOptions(policies)
    ELSE IF st = GitCommit THEN GitCommitPolicyOptions(policies)
    ELSE StagesSignaturePolicyOptions(policies)

\* Invocation p is a retention-mode cleanup that has run and returned, and
\* nothing of its environment has failed it: no listing, no git call and no
\* registry delete.
RetentionRunOver(p) ==
    /\ kind[p] = "cleanup" /\ ~isHistoryMode(opts[p]) /\ ~opts[p].LocalGitNil
    /\ pc[p] = "done"
    /\ env.fail[p] = "none" /\ env.undeletable = {}
    /\ \A c \in DOMAIN env.commitState : env.commitState[c] # "failed"

\* The images of name and strategy st the policy pass of p is given: those
\* fetched, less those in use in Kubernetes and those the
\* nonexistent-primitive pass has deleted.
GivenToPolicy(p, name, st) ==
    {i \in Fetched :
        /\ Info(i).imageName = name /\ strategyOk(i) /\ strategyOf(i) = st
        /\ ~ExcludedByKube(p, i) /\ ~PrimitiveNonexistent(i)}

\* The images of name the policy pass of strategy st has passed to a delete.
DeletedByPolicy(p, name, st) ==
    UNION {log[p][k].imgs :
              k \in {j \in Entries(p, "delete") :
                        /\ log[p][j].name = name
                        /\ log[p][j].phase \in {st \o " date policy", st \o " limit policy"}}}

\* The policy pass of strategy st has deleted of the images of name exactly
\* the expired ones and, of the n remaining, the n - limit oldest when a limit
\* is configured and n > limit.
PolicyDeletedExactly(p, name, st) ==
    LET o == PolicyOptionsOf(opts[p].Policies, st)
        given == GivenToPolicy(p, name, st)
        expired == {i \in given :
                       o.hasExpiryPeriod /\ Info(i).CreatedAt < timeNow(p) - o.expiryPeriod}
        remaining == given \ expired
        deleted == DeletedByPolicy(p, name, st)
        byLimit == deleted \ expired
    IN  /\ expired \subseteq deleted
        /\ deleted \subseteq given
        /\ IF o.hasLimit /\ Cardinality(remaining) > o.limit
           THEN /\ Cardinality(byLimit) = Cardinality(remaining) - o.limit
                /\ \A d \in byLimit, k \in remaining \ byLimit :
                      Info(d).CreatedAt <= Info(k).CreatedAt
           ELSE byLimit = {}

\* No policy pass of p has passed an image of another strategy to a delete.
PolicyDeletedNoOther(p) ==
    \A k \in Entries(p, "delete") :
        log[p][k].phase \notin NonexistentPhases =>
            \A i \in log[p][k].imgs : strategyOk(i) /\ strategyOf(i) \in PolicyStrategies

\* C10 as stated: in retention mode, for each strategy in {git-tag,
\* git-commit, stages-signature}, with that strategy's images ordered
\* ascending by createdAt, the pass deletes exactly (a) every image with
\* createdAt < now - expiry when an expiry is configured and (b) of the n
\* remaining images the n - limit oldest when a limit is configured and
\* n > limit; it deletes no other image, in particular none with strategy
\* git-branch or custom.
C10_PolicyDeletesExactly ==
    \A p \in Procs :
        RetentionRunOver(p) =>
            /\ \A name \in ImageNames, st \in PolicyStrategies :
                  PolicyDeletedExactly(p, name, st)
            /\ PolicyDeletedNoOther(p)

\* C10 where it holds: the same for the runs in which no configured limit is
\* negative.
C10_PolicyDeletesExactlyUnderNaturalLimits ==
    \A p \in Procs :
        /\ RetentionRunOver(p)
        /\ \A st \in PolicyStrategies :
              LET o == PolicyOptionsOf(opts[p].Policies, st)
              IN  o.hasLimit => o.limit >= 0
        => /\ \A name \in ImageNames, st \in PolicyStrategies :
                  PolicyDeletedExactly(p, name, st)
           /\ PolicyDeletedNoOther(p)

\* A retention cleanup whose git-tag limit is negative has ended in the panic
\* of the slice expression of the limit step, with nothing of its environment
\* failing.
C10_Witness ==
    \E p \in Procs :
        /\ RetentionRunOver(p)
        /\ GitTagPolicyOptions(opts[p].Policies).hasLimit
        /\ GitTagPolicyOptions(opts[p].Policies).limit < 0
        /\ loc[p].err = "panic"


\* Invocation p is a git-history cleanup.
HistoryCleanup(p) == kind[p] = "cleanup" /\ isHistoryMode(opts[p])

\* The image names whose turn of the "Git history based cleanup" loop
\* invocation p has gone through.
ScannedNames(p) == DOMAIN loc[p].reached

\* The candidate images of image name n in invocation p: the images the loop
\* is given to clean up.
Candidates(p, n) == MapGet(loc[p].repoImagesToCleanup, n)

\* The candidates of image name n the scan of invocation p has kept: those
\* that have joined the result.
KeptByScan(p, n) == Candidates(p, n) \cap MapGet(loc[p].resultRepoImages, n)

\* The images of image name n invocation p has passed to a delete in its
\* "Git history based cleanup" loop.
DeletedByHistory(p, n) ==
    UNION {log[p][k].imgs : k \in {j \in Entries(p, "delete") :
                                      /\ log[p][j].phase = "git-history"
                                      /\ log[p][j].name = n}}

\* The commit hashes of the per-commit metadata records invocation p has
\* fetched for image name n that carry content signature sig.
MetadataCommits(p, n, sig) ==
    LET metadata == loc[p].imageCommitHashImageMetadata
    IN  IF n \in DOMAIN metadata
        THEN {h \in DOMAIN metadata[n] : metadata[n][h] = sig}
        ELSE {}

\* C11: in git-history mode, for each image name, the candidate images kept by
\* the scan are exactly those whose content signature the references-history
\* scan reports as reached; every other candidate image whose content
\* signature has stored per-commit metadata, including a signature whose
\* metadata commits all no longer exist in the local git repository, is
\* deleted.
C11_KeptExactlyReached ==
    \A p \in Procs :
        HistoryCleanup(p) =>
            \A n \in ScannedNames(p) :
                /\ KeptByScan(p, n) =
                       {i \in Candidates(p, n) :
                           contentSignatureOf(i) \in loc[p].reached[n]}
                /\ \A i \in Candidates(p, n) \ KeptByScan(p, n) :
                       MetadataCommits(p, n, contentSignatureOf(i)) # {} =>
                           i \in DeletedByHistory(p, n)

\* A git-history cleanup has gone through its loop: the scan has kept an image
\* of a reached signature, and the loop has deleted both an image of a
\* signature the scan has not reached although one of its commits exists and
\* an image of a signature none of whose metadata commits exists in the local
\* git repository.
C11_Witness ==
    \E p \in Procs :
        /\ HistoryCleanup(p)
        /\ \E n \in ScannedNames(p) : KeptByScan(p, n) # {}
        /\ \E n \in ScannedNames(p) : \E i \in DeletedByHistory(p, n) :
              /\ MetadataCommits(p, n, contentSignatureOf(i)) # {}
              /\ MapGet(loc[p].existing[n], contentSignatureOf(i)) # {}
              /\ contentSignatureOf(i) \notin loc[p].reached[n]
        /\ \E n \in ScannedNames(p) : \E i \in DeletedByHistory(p, n) :
              /\ MetadataCommits(p, n, contentSignatureOf(i)) # {}
              /\ MapGet(loc[p].existing[n], contentSignatureOf(i)) = {}


\* The run's final result for image name n, as it stands once the "Git
\* history based cleanup" loop of invocation p is over: the images the run
\* has kept, by the scan or for lack of metadata, and the images set apart
\* because they are in use in Kubernetes.
FinalResult(p, n) ==
    MapGet(loc[p].resultRepoImages, n) \cup MapGet(loc[p].exceptedRepoImages, n)

\* The step removes from the stages storage the per-commit metadata record of
\* image name n and commit c.
MetadataRecordRemoved(n, c) ==
    /\ TagExists(stagesRepo, makeRepoImageMetadataByCommitImageRecord(n, c))
    /\ ~TagExists(stagesRepo', makeRepoImageMetadataByCommitImageRecord(n, c))

\* C12: in git-history mode, a per-commit metadata record of an image is
\* deleted only when it is orphaned: no image in the run's final result,
\* whether kept by the history scan, kept for lack of metadata, or kept
\* because it is in use in Kubernetes, carries the record's content signature.
C12_MetadataDeletedOnlyWhenOrphaned ==
    [][\A p \in Procs :
          HistoryCleanup(p) /\ pc[p] = "metadata" /\ pc'[p] # "metadata" =>
              \A n \in ImageNames :
                  \A k \in DOMAIN GetImageCommits(Tags(stagesRepo), n) :
                      LET c == GetImageCommits(Tags(stagesRepo), n)[k]
                      IN  MetadataRecordRemoved(n, c) =>
                              \A i \in FinalResult(p, n) :
                                  contentSignatureOf(i) #
                                      GetImageMetadataByCommit(stagesRepo, n, c).ContentSignature]_vars

\* A git-history cleanup has returned without error having removed the
\* metadata record of a commit whose content signature an image in use in
\* Kubernetes, which is in the run's final result, carries.
C12_Witness ==
    \E p \in Procs :
        /\ HistoryCleanupSucceeded(p)
        /\ \E n \in DOMAIN loc[p].imageCommitHashImageMetadata :
              \E h \in DOMAIN loc[p].imageCommitHashImageMetadata[n] :
                  /\ \E k \in IssuedDeletes(p) :
                        /\ log[p][k].phase = "metadata"
                        /\ makeRepoImageMetadataByCommitImageRecord(n, h) \in log[p][k].tags
                  /\ ~TagExists(stagesRepo, makeRepoImageMetadataByCommitImageRecord(n, h))
                  /\ \E i \in MapGet(loc[p].exceptedRepoImages, n) :
                        /\ i \in MapGet(loc[p].resultRepoImages, n)
                        /\ i \in imagesRepo
                        /\ contentSignatureOf(i) = loc[p].imageCommitHashImageMetadata[n][h]


\* Image i is a candidate of invocation p's cleanup with no related metadata:
\* it was not set apart as in use in Kubernetes, and its content-signature
\* label matches no per-commit metadata record p has fetched for its image
\* name.
CandidateWithoutMetadata(p, i) == ~ExcludedByKube(p, i) /\ NoRelatedMetadata(p, i)

\* C13: with GitHistoryBasedCleanupV12 set, every candidate image whose
\* content-signature label matches no stored per-commit metadata of its image
\* name is deleted; in plain git-history mode (V12 not set) every such image
\* is kept and appears in the result.  An image that is in the images repo
\* when an invocation has returned was there when the invocation fetched.
C13_WithoutMetadataDeletedUnderV12Only ==
    \A p \in Procs :
        HistoryCleanup(p) =>
            IF opts[p].GitHistoryBasedCleanupV12
            THEN \A n \in ScannedNames(p) :
                     \A i \in Candidates(p, n) :
                         NoRelatedMetadata(p, i) => i \in DeletedByHistory(p, n)
            ELSE /\ \A i \in ImageIds :
                        CandidateWithoutMetadata(p, i) => i \notin PassedToDelete(p)
                 /\ HistoryCleanupSucceeded(p) =>
                        \A i \in imagesRepo :
                            CandidateWithoutMetadata(p, i) =>
                                i \in MapGet(loc[p].resultRepoImages, Info(i).imageName)

\* A plain git-history cleanup has returned without error with an image
\* without related metadata in its result, and a cleanup with V12 set, run on
\* the repository the first has left, has deleted that image, which has no
\* related metadata for it either.
C13_Witness ==
    \E p, q \in Procs :
        /\ HistoryCleanupSucceeded(p) /\ ~opts[p].GitHistoryBasedCleanupV12
        /\ HistoryCleanupSucceeded(q) /\ opts[q].GitHistoryBasedCleanupV12
        /\ ~opts[q].DryRun
        /\ \E i \in ImageIds :
              /\ CandidateWithoutMetadata(p, i)
              /\ i \in MapGet(loc[p].resultRepoImages, Info(i).imageName)
              /\ NoRelatedMetadata(q, i)
              /\ i \in DeletedByHistory(q, Info(i).imageName)
              /\ i \notin imagesRepo


\* A delete or a removal invocation p has issued has failed: the registry has
\* refused one of its images or one of its records.
DeletionFailed(p) ==
    \E k \in IssuedDeletes(p) :
        \/ log[p][k].imgs \cap env.undeletable # {}
        \/ \E t \in log[p][k].tags \cap env.undeletableTags : TagExists(stagesRepo, t)

\* Nothing but a deletion fails invocation p: the environment fails it at no
\* point, and a cleanup has a local git repository to run with.
OnlyDeletionsFail(p) ==
    /\ env.fail[p] = "none"
    /\ kind[p] = "cleanup" => ~opts[p].LocalGitNil

\* The images the "Git history based cleanup" loop of invocation p deletes
\* for image name n.
HistoryDeleteList(p, n) ==
    gitHistoryBasedCleanupOfImage(env, n, loc[p].repoImagesToCleanup[n], loc[p].groups,
                                  loc[p].existing, loc[p].referencesToScan).delete

\* The images the nonexistent-git-primitive pass of invocation p deletes for
\* image name n.
NonexistentDeleteList(p, n) ==
    LET r == nonexistentGitPrimitiveBatches(loc[p].repoImagesToCleanup[n], opts[p], env,
                                            env.gitTags, env.gitBranches)
    IN  UNION {r.batches[k].imgs : k \in DOMAIN r.batches}

\* The tag is the tag of a stage or of a managed-image record.
IsStageOrManagedTag(tag) ==
    \/ stageIDsOfTag(tag) # << >>
    \/ HasPrefix(tag, RepoManagedImageRecord_ImageTagPrefix)

\* Invocation p has attempted every deletion it had to make: a cleanup has
\* passed to a delete the images of every image name its passes select; a
\* purge has left no image, and a purge and a stages purge no stage and no
\* managed-image record, but those the registry refuses to delete.
AllDeletionsAttempted(p) ==
    /\ kind[p] = "cleanup" /\ isHistoryMode(opts[p]) =>
           \A n \in DOMAIN loc[p].groups : HistoryDeleteList(p, n) \subseteq PassedToDelete(p)
    /\ kind[p] = "cleanup" /\ ~isHistoryMode(opts[p]) =>
           \A n \in DOMAIN loc[p].repoImagesToCleanup :
               NonexistentDeleteList(p, n) \subseteq PassedToDelete(p)
    /\ kind[p] = "purge" => imagesRepo \subseteq env.undeletable
    /\ kind[p] \in {"purge", "stagesPurge"} =>
           \A k \in DOMAIN stagesRepo :
               IsStageOrManagedTag(stagesRepo[k].tag) =>
                   stagesRepo[k].tag \in env.undeletableTags

\* C14: a failure deleting one image, one managed-image record or one
\* metadata record during cleanup or purge does not abort the invocation: the
\* remaining deletions are still attempted, and the invocation finally returns
\* an error when any deletion failed.
C14_DeleteFailureDoesNotAbort ==
    \A p \in Procs :
        pc[p] = "done" /\ kind[p] # "idle" /\ ~opts[p].DryRun /\ OnlyDeletionsFail(p) =>
            /\ AllDeletionsAttempted(p)
            /\ DeletionFailed(p) => loc[p].err # ""

\* A stages purge has returned the error of the removal of a managed-image
\* record the registry refuses, leaving a managed-image record the registry
\* would have removed.
C14_Witness ==
    \E p \in Procs :
        /\ kind[p] = "stagesPurge" /\ ~opts[p].DryRun /\ OnlyDeletionsFail(p)
        /\ pc[p] = "done" /\ loc[p].err # "" /\ DeletionFailed(p)
        /\ \E k \in DOMAIN stagesRepo :
              /\ HasPrefix(stagesRepo[k].tag, RepoManagedImageRecord_ImageTagPrefix)
              /\ stagesRepo[k].tag \notin env.undeletableTags

\* The other ways: a git-history cleanup has returned without error although
\* the removal of a metadata record has failed.
C14_MetadataFailureSwallowed ==
    \E p \in Procs :
        /\ HistoryCleanupSucceeded(p) /\ ~opts[p].DryRun /\ OnlyDeletionsFail(p)
        /\ DeletionFailed(p)

\* A cleanup has returned the error of a delete of images without having
\* passed to a delete the images of an image name still to do.
C14_ImageFailureAborts ==
    \E p \in Procs :
        /\ kind[p] = "cleanup" /\ ~opts[p].DryRun /\ OnlyDeletionsFail(p)
        /\ pc[p] = "done" /\ loc[p].err # "" /\ DeletionFailed(p)
        /\ ~AllDeletionsAttempted(p)


\* The error cleanup returns when the listing of workload kind k has failed.
KubeListError(k) ==
    "cannot get deployed imagesRepoImageList: cannot get " \o k \o " images: list failed"

\* C15: if listing any of the eight workload kinds fails in any Kubernetes
\* context, cleanup returns an error that names the failing kind and no image
\* delete and no metadata delete has been issued.
C15_KubeListFailureIsFatal ==
    \A p \in Procs :
        kind[p] = "cleanup" /\ loc[p].listFailed # {} =>
            /\ pc[p] \in {"releaseHost", "unlock", "done"}
            /\ \E f \in loc[p].listFailed : loc[p].err = KubeListError(f[2])
            /\ IssuedDeletes(p) = {}
            /\ Entries(p, "delete") = {} /\ Entries(p, "rm") = {}

\* A cleanup that is not a dry run has returned the error of the listing of
\* the CronJobs of one context, the listing of another kind having failed in
\* the other context, and has deleted nothing.
C15_Witness ==
    \E p \in Procs :
        /\ kind[p] = "cleanup" /\ ~opts[p].DryRun /\ pc[p] = "done"
        /\ Cardinality(loc[p].listFailed) = 2
        /\ loc[p].err = KubeListError("CronJobs")
        /\ IssuedDeletes(p) = {}


\* Invocation p is an images cleanup that has returned without error.
CleanupReturned(p) == kind[p] = "cleanup" /\ pc[p] = "done" /\ loc[p].err = ""

\* The two invocations had the same inputs: the first was a dry run, which has
\* left the repositories as they were, and sort.Slice, given the same lists,
\* has left them in the same order.
SameInputs(p, q) ==
    /\ opts[p].DryRun /\ ~opts[q].DryRun
    /\ opts[q] = [opts[p] EXCEPT !.DryRun = FALSE]
    /\ timeNow(p) = timeNow(q)
    /\ loc[p].sorted = loc[q].sorted

\* C16: for the same inputs, a dry-run cleanup and a real cleanup whose
\* deletes all succeed end with the same in-memory result image list: the dry
\* run removes from its state every image it would have deleted.
C16_DryRunEndsWithSameResult ==
    \A p, q \in Procs :
        /\ CleanupReturned(p) /\ CleanupReturned(q)
        /\ SameInputs(p, q)
        /\ ~DeletionFailed(q)
        => /\ loc[p].resultRepoImages = loc[q].resultRepoImages
           /\ loc[p].imageRepoImageList = loc[q].imageRepoImageList
           /\ PassedToDelete(p) = PassedToDelete(q)
           /\ \A n \in DOMAIN loc[p].resultRepoImages :
                  loc[p].resultRepoImages[n] \cap PassedToDelete(p) = {}

\* A dry run and then a real run of a retention cleanup have returned, the
\* real one having deleted images, by a policy among others, and both hold
\* the same result list, from which the deleted images are gone.
C16_Witness ==
    \E p, q \in Procs :
        /\ CleanupReturned(p) /\ CleanupReturned(q)
        /\ SameInputs(p, q)
        /\ ~isHistoryMode(opts[p])
        /\ \E k \in IssuedDeletes(q) :
              log[q][k].phase = "git-commit limit policy" /\ log[q][k].imgs # {}
        /\ PassedToDelete(q) \cap imagesRepo = {}
        /\ PassedToDelete(p) = PassedToDelete(q)
        /\ loc[p].resultRepoImages = loc[q].resultRepoImages


\* The second of two cleanups in a row issues a delete in the step taken: an
\* image or a metadata record leaves its repository, or a list of images is
\* passed to a delete, or the removal of a metadata record that is in the
\* stages storage is called for.
SecondRunIssuesDelete ==
    /\ StepOf("p2")
    /\ \/ imagesRepo' # imagesRepo
       \/ stagesRepo' # stagesRepo
       \/ \E k \in DOMAIN log'["p2"] :
             /\ k \notin DOMAIN log["p2"]
             /\ log'["p2"][k].issued
             /\ \/ log'["p2"][k].op = "delete" /\ log'["p2"][k].imgs # {}
                \/ /\ log'["p2"][k].op = "rm"
                   /\ \E t \in log'["p2"][k].tags : TagExists(stagesRepo, t)

\* The first of two cleanups in a row was no dry run and has returned without
\* error, and the second is run with the same options.
FirstRunDone ==
    /\ kind["p1"] = "cleanup" /\ kind["p2"] = "cleanup"
    /\ ~opts["p1"].DryRun /\ opts["p2"] = opts["p1"]
    /\ pc["p1"] = "done" /\ loc["p1"].err = ""

ExpiredBetweenRuns ==
    \E i \in imagesRepo :
        /\ strategyOk(i)
        /\ strategyOf(i) \in {GitTag, GitCommit, StagesSignature}
        /\ LET o == PolicyOptionsOf(opts["p2"].Policies, strategyOf(i))
           IN  /\ o.hasExpiryPeriod
               /\ Info(i).CreatedAt < timeNow("p2") - o.expiryPeriod
               /\ ~(Info(i).CreatedAt < timeNow("p1") - o.expiryPeriod)

C17_ExpiredSinceFirstRun ==
    /\ FirstRunDone /\ CleanupReturned("p2")
    /\ ~DeletionFailed("p1")
    /\ \E k \in IssuedDeletes("p2") : log["p2"][k].imgs # {}

\* The second run removes the metadata record the registry has refused to
\* remove in the first run.
C17_RefusedMetadataRemovedAgain ==
    /\ FirstRunDone /\ CleanupReturned("p2")
    /\ DeletionFailed("p1")
    /\ \E k \in IssuedDeletes("p2") : log["p2"][k].phase = "metadata"

HasNoStrategyLabel(i) == \A kv \in Info(i).Labels : kv[1] # WerfTagStrategyLabel

\* The names of the delete blocks of the nonexistent-git-primitive pass and of
\* the limit/expiry retention pass.
RetentionPhases ==
    {"nonexistent-git-tag", "nonexistent-git-branch", "nonexistent-git-commit"}
    \cup {st \o " date policy" : st \in PolicyStrategies}
    \cup {st \o " limit policy" : st \in PolicyStrategies}

\* C18: an image that has no tag-strategy label is never deleted by the
\* nonexistent-git-primitive pass or by the limit/expiry retention pass: no
\* delete of these passes is handed such an image, and when a retention run
\* returns without error every such image it fetched is still in the images
\* repo, and in the result of its name when the passes went through it.
C18_UnlabelledNeverDeletedByRetention ==
    \A p \in Procs :
        /\ \A k \in Entries(p, "delete") :
               log[p][k].phase \in RetentionPhases
               => \A i \in log[p][k].imgs : ~HasNoStrategyLabel(i)
        /\ kind[p] = "cleanup" /\ ~isHistoryMode(opts[p]) /\ CleanupReturned(p)
           => \A n \in DOMAIN loc[p].imageRepoImageList :
                  \A i \in loc[p].imageRepoImageList[n] :
                      HasNoStrategyLabel(i)
                      => /\ i \in imagesRepo
                         /\ n \in DOMAIN loc[p].resultRepoImages
                            => i \in loc[p].resultRepoImages[n]

\* A retention run has returned: an image without a tag-strategy label, in use
\* in no cluster and the oldest of its name, was in the list both passes went
\* through; the nonexistent-primitive pass has deleted an image of its name
\* and the limit policy has deleted a newer image of its name; it is kept.
C18_Witness ==
    \E p \in Procs :
        /\ kind[p] = "cleanup" /\ ~isHistoryMode(opts[p]) /\ CleanupReturned(p)
        /\ \E n \in DOMAIN loc[p].imageRepoImageList :
           \E i \in loc[p].imageRepoImageList[n] :
               /\ HasNoStrategyLabel(i)
               /\ i \notin UNION {MapGet(loc[p].exceptedRepoImages, m) :
                                     m \in DOMAIN loc[p].exceptedRepoImages}
               /\ i \in MapGet(loc[p].resultRepoImages, n) /\ i \in imagesRepo
               /\ \E k \in IssuedDeletes(p) :
                      /\ log[p][k].name = n
                      /\ log[p][k].phase = "nonexistent-git-branch"
                      /\ log[p][k].imgs # {}
               /\ \E k \in IssuedDeletes(p) :
                      /\ log[p][k].name = n
                      /\ log[p][k].phase = StagesSignature \o " limit policy"
                      /\ \E j \in log[p][k].imgs :
                             Info(j).CreatedAt > Info(i).CreatedAt


\* The git-commit images of name n the nonexistent-primitive pass of p goes
\* through: those fetched that are not in use in Kubernetes.
GitCommitImagesOfPass(p, n) ==
    {i \in Fetched :
        /\ Info(i).imageName = n /\ ~ExcludedByKube(p, i)
        /\ \E kv \in Info(i).Labels : kv = <<WerfTagStrategyLabel, GitCommit>>}

\* The error of the commit-existence check of image i.
CommitCheckError(i) == IsCommitExists(env, repoImageMetaTag(i)).err

\* The delete blocks the nonexistent-primitive pass of p has run for name n.
NonexistentDeletes(p, n) ==
    {k \in Entries(p, "delete") :
        log[p][k].name = n /\ log[p][k].phase \in NonexistentPhases}

\* The nonexistent-primitive pass of p for name n has returned without error.
NonexistentPassReturned(p, n) ==
    \/ pc[p] = "policies" /\ loc[p].cur = n
    \/ n \in DOMAIN loc[p].resultRepoImages

\* Invocation p is a retention cleanup with a local git repository whose tag
\* and branch listings succeed.
RetentionWithGit(p) ==
    /\ kind[p] = "cleanup" /\ ~isHistoryMode(opts[p]) /\ ~opts[p].LocalGitNil
    /\ env.fail[p] \notin {"gitTags", "gitBranches"}

\* C19: in the nonexistent-primitive pass, a commit-existence error reporting
\* a bad commit hash is taken for "the commit does not exist" and the
\* git-commit image is handed to the delete of the nonexistent-git-commit
\* block (and leaves the images repo when the delete is issued and not
\* refused), while any other commit-existence error aborts the pass with that
\* error before any delete of the pass is issued: the pass runs no delete
\* block for the name and does not return, and the run, when nothing else
\* fails it, ends with that error.
C19_BadHashDeletedOtherErrorAborts ==
    \A p \in Procs : RetentionWithGit(p) =>
        \A n \in ImageNames :
            LET gc == GitCommitImagesOfPass(p, n)
                other == {i \in gc : CommitCheckError(i) \notin {"", "bad commit hash"}}
            IN  /\ other = {} /\ NonexistentPassReturned(p, n)
                   => \A i \in gc :
                          CommitCheckError(i) = "bad commit hash"
                          => \E k \in NonexistentDeletes(p, n) :
                                 /\ log[p][k].phase = "nonexistent-git-commit"
                                 /\ i \in log[p][k].imgs
                                 /\ log[p][k].issued => i \notin imagesRepo
                /\ other # {}
                   => /\ NonexistentDeletes(p, n) = {}
                      /\ ~NonexistentPassReturned(p, n)
                      /\ pc[p] = "done" /\ env.fail[p] = "none" /\ env.undeletable = {}
                         => \E i \in other : loc[p].err = CommitCheckError(i)

\* A real retention run has returned without error: the existence check of a
\* git-commit image's commit has reported a bad commit hash, and the image
\* was deleted in the nonexistent-git-commit block and is gone.
C19_Witness ==
    \E p \in Procs :
        /\ RetentionWithGit(p) /\ CleanupReturned(p) /\ ~opts[p].DryRun
        /\ \E i \in ImageIds :
              /\ i \in GitCommitImagesOfPass(p, Info(i).imageName)
              /\ CommitCheckError(i) = "bad commit hash"
              /\ i \notin imagesRepo
              /\ \E k \in NonexistentDeletes(p, Info(i).imageName) :
                     log[p][k].phase = "nonexistent-git-commit" /\ i \in log[p][k].imgs

\* A retention run has ended with the error of a commit-existence check that
\* is no bad commit hash; a nonexistent git tag of the same name was found
\* before it and no delete was run for the name.
C19_AbortedByOtherError ==
    \E p \in Procs :
        /\ RetentionWithGit(p) /\ pc[p] = "done"
        /\ \E i \in ImageIds :
              /\ i \in GitCommitImagesOfPass(p, Info(i).imageName)
              /\ CommitCheckError(i) \notin {"", "bad commit hash"}
              /\ loc[p].err = CommitCheckError(i)
              /\ NonexistentDeletes(p, Info(i).imageName) = {}
              /\ \E j \in ImageIds :
                     /\ Info(j).imageName = Info(i).imageName
                     /\ ~ExcludedByKube(p, j)
                     /\ strategyOf(j) = GitTag /\ PrimitiveNonexistent(j)
                     /\ j \in imagesRepo


\* Invocation p has read the tags of the repo back and constructed the tags
\* of what it read.
ReadBack(p) == kind[p] = "tags" /\ pc[p] = "done"

\* C20: for every tag t that a decoder accepts (a stage tag, a managed-image
\* tag or a client-id tag), re-encoding the decoded value yields exactly t:
\* the tags constructed from what was read are the tags that were accepted,
\* and posting the records read adds no tag to the repo.
C20_ReencodingYieldsTag ==
    \A p \in Procs :
        ReadBack(p) => /\ loc[p].encoded = loc[p].accepted
                       /\ Len(stagesRepo) = 1

\* The decimal of a tag's number part is the one fmt's %d writes.
CanonicalNumber(s) == ParseIntOk(s) /\ FormatInt(ParseInt(s)) = s

\* The accepted tag is one the constructors write: its number part is the
\* decimal %d writes, and a managed-image record has a name part.
WrittenByConstructor(tag) ==
    IF HasPrefix(tag, RepoManagedImageRecord_ImageTagPrefix)
    THEN Len(tag) > Len(RepoManagedImageRecord_ImageTagPrefix)
    ELSE IF HasPrefix(tag, RepoClientIDRecrod_ImageTagPrefix)
         THEN CanonicalNumber(SubSeq(tag, LastIndexOf(tag, "-") + 1, Len(tag)))
         ELSE CanonicalNumber(SubSeq(tag, IndexOf(tag, "-") + 1, Len(tag)))

\* The round trip for the tags the constructors write.
C20_WrittenTagsReencode ==
    \A p \in Procs :
        ReadBack(p) /\ (\A k \in 1..Len(loc[p].accepted) :
                            WrittenByConstructor(loc[p].accepted[k]))
        => loc[p].encoded = loc[p].accepted /\ Len(stagesRepo) = 1

\* A client-id record whose timestamp is written with a leading zero was read
\* and posted again: the repo holds a second record, with another tag.
C20_Witness ==
    \E p \in Procs :
        /\ ReadBack(p)
        /\ loc[p].accepted = <<RepoClientIDRecrod_ImageTagPrefix \o <<"s", "-", "0", "7">> >>
        /\ loc[p].decoded = <<[ClientID |-> <<"s">>, TimestampMillisec |-> 7]>>
        /\ loc[p].encoded = <<RepoClientIDRecrod_ImageTagPrefix \o <<"s", "-", "7">> >>
        /\ Len(stagesRepo) = 2

\* A stage tag with a leading zero in its unique id was read as a stage id
\* whose name has another tag.
C20_StageTagNotReencoded ==
    \E p \in Procs :
        /\ ReadBack(p)
        /\ loc[p].accepted = << <<"s", "-", "0", "7">> >>
        /\ loc[p].decoded = <<[Signature |-> <<"s">>, UniqueID |-> 7]>>
        /\ loc[p].encoded = << <<"s", "-", "7">> >>

\* The managed-image record without a name part was read as the nameless
\* image, whose record has another tag.
C20_ManagedTagNotReencoded ==
    \E p \in Procs :
        /\ ReadBack(p)
        /\ loc[p].accepted = <<RepoManagedImageRecord_ImageTagPrefix>>
        /\ loc[p].decoded = << << >> >>
        /\ loc[p].encoded = <<RepoManagedImageRecord_ImageTagPrefix \o NamelessImageRecordTag>>
        /\ Len(stagesRepo) = 2

\* A tag of each kind was read and constructed again as it was.
C20_Reencoded ==
    \E p \in Procs :
        /\ ReadBack(p)
        /\ loc[p].encoded = loc[p].accepted
        /\ loc[p].accepted \in
               {<< <<"s", "-", "7", "0">> >>,
                <<RepoManagedImageRecord_ImageTagPrefix \o <<"s">> \o Slash \o <<"s">> >>}


\* -------------------------------------------------------------------------
\* C21: decoding an encoded stage tag
\* -------------------------------------------------------------------------

\* The signature starts with none of the three reserved tag prefixes.
NoReservedPrefix(signature) ==
    /\ ~HasPrefix(signature, RepoManagedImageRecord_ImageTagPrefix)
    /\ ~HasPrefix(signature, RepoImageMetadataByCommitRecord_ImageTagPrefix)
    /\ ~HasPrefix(signature, RepoClientIDRecrod_ImageTagPrefix)

\* Invocation p has constructed a stage name and decoded its tag.
DecodedConstructed(p) ==
    /\ Len(loc[p].calls) = 2
    /\ loc[p].calls[1].op = "ConstructStageImageName"
    /\ loc[p].calls[2].op = "getSignatureAndUniqueIDFromRepoStageImageTag"

\* C21: for every signature that starts with no reserved prefix and every
\* positive unique id, decoding the stage tag "<signature>-<unique_id>" built
\* by the encoder returns exactly (signature, unique_id).
C21_DecodeReturnsEncoded ==
    \A p \in Procs :
        (/\ DecodedConstructed(p)
         /\ NoReservedPrefix(loc[p].calls[1].args[1])
         /\ loc[p].calls[1].args[2] > 0)
        => /\ loc[p].calls[2].err = ""
           /\ loc[p].calls[2].ret = loc[p].calls[1].args

\* C21, for signatures without a '-': the decoder returns what was encoded.
C21_DashFreeSignatureDecoded ==
    \A p \in Procs :
        (/\ DecodedConstructed(p)
         /\ IndexOf(loc[p].calls[1].args[1], "-") = 0
         /\ loc[p].calls[1].args[2] > 0)
        => /\ loc[p].calls[2].err = ""
           /\ loc[p].calls[2].ret = loc[p].calls[1].args

\* The tag of signature "s-t" and a positive unique id is refused by the decoder.
C21_Witness ==
    \E p \in Procs :
        /\ DecodedConstructed(p)
        /\ loc[p].calls[1].args = << <<"s", "-", "t">>, 7 >>
        /\ loc[p].calls[2].err = UnexpectedTagFormatErrorPrefix

\* The tag of signature "s-" and unique id 7 decodes to signature "s" and -7.
C21_DecodedToAnotherPair ==
    \E p \in Procs :
        /\ DecodedConstructed(p)
        /\ loc[p].calls[1].args = << <<"s", "-">>, 7 >>
        /\ loc[p].calls[2].err = ""
        /\ loc[p].calls[2].ret = << <<"s">>, 0 - 7 >>

\* A tag of a signature without '-' is decoded to what was encoded.
C21_DashFreeDecoded ==
    \E p \in Procs :
        /\ DecodedConstructed(p)
        /\ loc[p].calls[1].args = << <<"s">>, 70 >>
        /\ loc[p].calls[2].ret = << <<"s">>, 70 >>


\* -------------------------------------------------------------------------
\* C22: the cap on the per-commit metadata tag
\* -------------------------------------------------------------------------

\* The tag PutImageCommit pushed in call c.
PushedTag(c) == c.reg[Len(c.reg)].tag

\* The tag of the name and the commit before any shrinking.
UnshrunkTag(imageName, commit) ==
    RepoImageMetadataByCommitRecord_ImageTagPrefix
        \o slugImageNameAsDockerImageTag(imageName) \o <<"-">> \o commit

\* The part of a metadata tag between the prefix and "-<commit>".
NamePart(tag, commit) ==
    SubSeq(tag, Len(RepoImageMetadataByCommitRecord_ImageTagPrefix) + 1,
           Len(tag) - Len(commit) - 1)

\* C22: for every image name and every commit of at most 40 characters the
\* per-commit metadata tag has at most 128 characters; when the unshrunk tag
\* fits it is the tag, otherwise only the name slug is shrunk, by the excess,
\* and holds no '-' any more.
C22_MetadataTagCapped ==
    \A p \in Procs : \A k \in 1..Len(loc[p].calls) :
        LET c == loc[p].calls[k]
            full == UnshrunkTag(c.args[1], c.args[2])
            tag == PushedTag(c)
        IN  (c.op = "PutImageCommit" /\ Len(c.args[2]) <= 40)
            => /\ Len(tag) <= 128
               /\ Len(full) <= 128 => tag = full
               /\ Len(full) > 128 =>
                    /\ HasPrefix(tag, RepoImageMetadataByCommitRecord_ImageTagPrefix)
                    /\ SubSeq(tag, Len(tag) - Len(c.args[2]), Len(tag)) = <<"-">> \o c.args[2]
                    /\ Len(NamePart(tag, c.args[2]))
                         <= Len(NamePart(full, c.args[2])) - (Len(full) - 128)
                    /\ IndexOf(NamePart(tag, c.args[2]), "-") = 0

\* A name whose unshrunk tag is one character over the cap was put for a
\* commit of 40 characters: the tag pushed is another, of 128 characters.
C22_Witness ==
    \E p \in Procs : \E k \in 1..Len(loc[p].calls) :
        LET c == loc[p].calls[k]
        IN  /\ c.op = "PutImageCommit"
            /\ Len(UnshrunkTag(c.args[1], c.args[2])) = 129
            /\ IndexOf(slugImageNameAsDockerImageTag(c.args[1]), "-") # 0
            /\ PushedTag(c) # UnshrunkTag(c.args[1], c.args[2])
            /\ Len(PushedTag(c)) = 128
            /\ TagExists(stagesRepo, PushedTag(c))

\* A name whose unshrunk tag has exactly 128 characters was put: unshrunk.
C22_UnshrunkAtTheCap ==
    \E p \in Procs : \E k \in 1..Len(loc[p].calls) :
        LET c == loc[p].calls[k]
        IN  /\ c.op = "PutImageCommit"
            /\ Len(UnshrunkTag(c.args[1], c.args[2])) = 128
            /\ IndexOf(slugImageNameAsDockerImageTag(c.args[1]), "-") # 0
            /\ PushedTag(c) = UnshrunkTag(c.args[1], c.args[2])


\* -------------------------------------------------------------------------
\* C23: the stages of a repository
\* -------------------------------------------------------------------------

\* The tag starts with no reserved prefix and has, after its first '-', a
\* decimal timestamp.
IsStageTag(tag) ==
    /\ NoReservedPrefix(tag)
    /\ IndexOf(tag, "-") # 0
    /\ ParseIntOk(SubSeq(tag, IndexOf(tag, "-") + 1, Len(tag)))

\* The positions of the stage tags in the tag list.
StagePositions(tags) == {i \in 1..Len(tags) : IsStageTag(tags[i])}

\* C23: GetAllStages returns, in tag-list order, exactly one StageID per tag
\* that starts with no reserved prefix and splits at its first '-' into a
\* signature and a decimal timestamp; record tags and undecodable tags are
\* skipped and the call does not fail.
C23_StagesOfDecodableTags ==
    \A p \in Procs : \A k \in 1..Len(loc[p].calls) :
        LET c == loc[p].calls[k]
            tags == Tags(stagesRepo)
            at == StagePositions(tags)
        IN  c.op = "GetAllStages"
            => /\ c.err = ""
               /\ Len(c.ret) = Cardinality(at)
               /\ \A i \in at :
                    LET id == c.ret[Cardinality({j \in at : j <= i})]
                        dash == IndexOf(tags[i], "-")
                    IN  /\ id.Signature = SubSeq(tags[i], 1, dash - 1)
                        /\ id.UniqueID = ParseInt(SubSeq(tags[i], dash + 1, Len(tags[i])))

\* GetAllStages was called on a repo with stage tags between a managed-image
\* record, a metadata record, a client-id record and two undecodable tags,
\* and returned the three stages.
C23_Witness ==
    \E p \in Procs : \E k \in 1..Len(loc[p].calls) :
        LET c == loc[p].calls[k]
            tags == Tags(stagesRepo)
        IN  /\ c.op = "GetAllStages"
            /\ \E i, j, l, m, n \in 1..Len(tags) :
                  /\ HasPrefix(tags[i], RepoManagedImageRecord_ImageTagPrefix)
                  /\ HasPrefix(tags[j], RepoImageMetadataByCommitRecord_ImageTagPrefix)
                  /\ HasPrefix(tags[l], RepoClientIDRecrod_ImageTagPrefix)
                  /\ IndexOf(tags[m], "-") = 0
                  /\ NoReservedPrefix(tags[n]) /\ IndexOf(tags[n], "-") # 0
                  /\ ~IsStageTag(tags[n])
            /\ c.ret = <<[Signature |-> SigS1, UniqueID |-> 7],
                         [Signature |-> SigS1, UniqueID |-> 12],
                         [Signature |-> SigS2, UniqueID |-> 9]>>


\* -------------------------------------------------------------------------
\* C24: the managed image names read back
\* -------------------------------------------------------------------------

\* Invocation p has added the managed image of a lower-case name, with
\* success, and then read the managed images.
AddedThenRead(p) ==
    /\ Len(loc[p].calls) = 2
    /\ loc[p].calls[1].op = "AddManagedImage"
    /\ validateImageNameOk(loc[p].calls[1].args[1])
    /\ loc[p].calls[1].err = ""
    /\ loc[p].calls[2].op = "GetManagedImages"

\* The name is one of the list.
Contains(list, name) == \E i \in 1..Len(list) : list[i] = name

\* C24: for every lower-case image name, the empty name and names with '/'
\* or '+' included, unslugging the slugged name gives back the name, and
\* after AddManagedImage(name) succeeded GetManagedImages returns a list
\* that contains name.
C24_AddedNameReadBack ==
    \A p \in Procs :
        AddedThenRead(p) =>
            LET name == loc[p].calls[1].args[1]
            IN  /\ unslugDockerImageTagAsImageName(slugImageNameAsDockerImageTag(name)) = name
                /\ Contains(loc[p].calls[2].ret, name)

\* The name holds none of the words the slug writes for '/', '+' and the
\* empty name.
HoldsNoSlugWord(name) ==
    /\ ReplaceAll(name, Slash, <<"/">>) = name
    /\ ReplaceAll(name, <<"_", "_", "p", "l", "u", "s", "_", "_">>, <<"+">>) = name
    /\ name # NamelessImageRecordTag

\* C24, for the names that hold no slug word.
C24_NameWithoutSlugWordReadBack ==
    \A p \in Procs :
        (AddedThenRead(p) /\ HoldsNoSlugWord(loc[p].calls[1].args[1])) =>
            LET name == loc[p].calls[1].args[1]
            IN  /\ unslugDockerImageTagAsImageName(slugImageNameAsDockerImageTag(name)) = name
                /\ Contains(loc[p].calls[2].ret, name)

\* The managed image "__slash__" was added to the empty repo, and "/" is the
\* one managed image read.
C24_Witness ==
    \E p \in Procs :
        /\ AddedThenRead(p)
        /\ loc[p].calls[1].args[1] = Slash
        /\ Len(loc[p].calls[1].reg) = 2
        /\ loc[p].calls[2].ret = << <<"/">> >>

\* The managed image of the reserved nameless tag was added, and the empty
\* name is read in its place.
C24_NamelessReadBack ==
    \E p \in Procs :
        /\ AddedThenRead(p)
        /\ loc[p].calls[1].args[1] = NamelessImageRecordTag
        /\ loc[p].calls[2].ret = << << >> >>

\* The managed image "a+b" was added and is read back, as is "b/x".
C24_ReadBack ==
    \E p \in Procs :
        /\ AddedThenRead(p)
        /\ loc[p].calls[1].args[1] = <<"a", "+", "b">>
        /\ Len(loc[p].calls[1].reg) = 2
        /\ Contains(loc[p].calls[2].ret, <<"a", "+", "b">>)


\* -------------------------------------------------------------------------
\* C25: a record is pushed once
\* -------------------------------------------------------------------------

\* The pushes among the registry calls of call c.
Pushes(c) == {i \in 1..Len(c.reg) : c.reg[i].op = "push"}

\* Call c pushes nothing before it has asked whether the tag exists.
ChecksBeforePush(c) ==
    \A i \in Pushes(c) : \E j \in 1..(i - 1) : c.reg[j] = RegCall("exists", c.reg[i].tag)

\* Invocation p has called the operation op twice with the same arguments.
CalledTwice(p, ops) ==
    /\ Len(loc[p].calls) = 2
    /\ loc[p].calls[1].op \in ops
    /\ loc[p].calls[2].op = loc[p].calls[1].op
    /\ loc[p].calls[2].args = loc[p].calls[1].args

\* The operations ops check for the record before they push it, and push
\* it at most once when repeated.
PushOnce(ops) ==
    \A p \in Procs :
        /\ \A k \in 1..Len(loc[p].calls) :
              loc[p].calls[k].op \in ops => ChecksBeforePush(loc[p].calls[k])
        /\ CalledTwice(p, ops) =>
              /\ Cardinality(Pushes(loc[p].calls[1])) + Cardinality(Pushes(loc[p].calls[2])) <= 1
              /\ Pushes(loc[p].calls[2]) = {}

\* C25: each of AddManagedImage, PostClientIDRecord and PutImageCommit first
\* checks whether the record exists and issues no push when it exists, so
\* repeating the operation with the same arguments pushes at most once.
C25_RecordPushedOnce ==
    PushOnce({"AddManagedImage", "PostClientIDRecord", "PutImageCommit"})

\* C25, for AddManagedImage and PostClientIDRecord.
C25_ManagedAndClientIDPushedOnce ==
    PushOnce({"AddManagedImage", "PostClientIDRecord"})

\* PutImageCommit was called twice with the same arguments and pushed twice,
\* with no existence check.
C25_Witness ==
    \E p \in Procs :
        /\ CalledTwice(p, {"PutImageCommit"})
        /\ \A k \in 1..2 : loc[p].calls[k].reg
                             = <<RegCall("push", makeRepoImageMetadataByCommitImageRecord(
                                                     loc[p].calls[k].args[1],
                                                     loc[p].calls[k].args[2]))>>

\* PostClientIDRecord was called twice with the same record: one push, and
\* the second call only checks.
C25_SecondCallOnlyChecks ==
    \E p \in Procs :
        /\ CalledTwice(p, {"PostClientIDRecord"})
        /\ Pushes(loc[p].calls[1]) = {2}
        /\ Len(loc[p].calls[2].reg) = 1
        /\ loc[p].calls[2].reg[1].op = "exists"


\* -------------------------------------------------------------------------
\* C26: the metadata of a commit that has none
\* -------------------------------------------------------------------------

\* The call invocation p made last is GetImageMetadataByCommit.
LastCallGetsMetadata(p) ==
    /\ Len(loc[p].calls) > 0
    /\ loc[p].calls[Len(loc[p].calls)].op = "GetImageMetadataByCommit"

\* The position in the repo of the record the last call of p asked for, 0
\* when the repo has no such tag.
AskedRecord(p) ==
    LET c == loc[p].calls[Len(loc[p].calls)]
    IN  TagIndex(stagesRepo, makeRepoImageMetadataByCommitImageRecord(c.args[1], c.args[2]))

\* C26: GetImageMetadataByCommit returns nil and no error both when the
\* metadata tag is absent from the repository and when the image exists but
\* carries no ContentSignature label.
C26_NilWithoutTagOrLabel ==
    \A p \in Procs :
        LastCallGetsMetadata(p) =>
            LET c == loc[p].calls[Len(loc[p].calls)]
                k == AskedRecord(p)
            IN  /\ c.err = ""
                /\ k = 0 => c.ret = << >>
                /\ (k # 0 /\ ~LabelOk(stagesRepo[k].labels, ContentSignatureLabel))
                     => c.ret = << >>

\* C26, for an absent tag and for an image without any label.
C26_NilWithoutTagOrLabels ==
    \A p \in Procs :
        LastCallGetsMetadata(p) =>
            LET c == loc[p].calls[Len(loc[p].calls)]
                k == AskedRecord(p)
            IN  /\ c.err = ""
                /\ k = 0 => c.ret = << >>
                /\ (k # 0 /\ ~stagesRepo[k].hasLabels) => c.ret = << >>
                /\ (k # 0 /\ LabelOk(stagesRepo[k].labels, ContentSignatureLabel))
                     => c.ret = <<[ContentSignature |->
                                     LabelGet(stagesRepo[k].labels, ContentSignatureLabel)]>>

\* The record asked for has a label, none of them ContentSignature, and the
\* call returned a metadata with the empty content signature.
C26_Witness ==
    \E p \in Procs :
        /\ LastCallGetsMetadata(p)
        /\ AskedRecord(p) # 0
        /\ stagesRepo[AskedRecord(p)].labels = {<<"other", "x">>}
        /\ loc[p].calls[Len(loc[p].calls)].ret = <<[ContentSignature |-> ""]>>

\* Nil was returned for a tag absent from a repo that has others.
C26_NilForAbsentTag ==
    \E p \in Procs :
        /\ LastCallGetsMetadata(p)
        /\ AskedRecord(p) = 0
        /\ stagesRepo # << >>
        /\ loc[p].calls[Len(loc[p].calls)].ret = << >>

\* Nil was returned for an image that exists and has no labels.
C26_NilForUnlabelledImage ==
    \E p \in Procs :
        /\ LastCallGetsMetadata(p)
        /\ AskedRecord(p) # 0
        /\ ~stagesRepo[AskedRecord(p)].hasLabels
        /\ loc[p].calls[Len(loc[p].calls)].ret = << >>


\* -------------------------------------------------------------------------
\* C27: a client-id record read back
\* -------------------------------------------------------------------------

\* Invocation p has posted a client-id record and then read the records.
PostedThenRead(p) ==
    /\ Len(loc[p].calls) = 2
    /\ loc[p].calls[1].op = "PostClientIDRecord"
    /\ loc[p].calls[1].err = ""
    /\ loc[p].calls[2].op = "GetClientIDRecords"

\* C27: for every client id, possibly with '-', and every non-negative
\* millisecond timestamp, PostClientIDRecord followed by GetClientIDRecords
\* returns a record with exactly that id and that timestamp.
C27_PostedRecordReadBack ==
    \A p \in Procs :
        (PostedThenRead(p) /\ loc[p].calls[1].args[1].TimestampMillisec >= 0)
        => /\ loc[p].calls[2].err = ""
           /\ \E i \in 1..Len(loc[p].calls[2].ret) :
                 /\ loc[p].calls[2].ret[i].ClientID = loc[p].calls[1].args[1].ClientID
                 /\ loc[p].calls[2].ret[i].TimestampMillisec
                      = loc[p].calls[1].args[1].TimestampMillisec

\* The record of the id "x-y" and the timestamp 12 was pushed to the empty
\* repo, and it is the one record read.
C27_Witness ==
    \E p \in Procs :
        /\ PostedThenRead(p)
        /\ loc[p].calls[1].args[1] = [ClientID |-> <<"x", "-", "y">>, TimestampMillisec |-> 12]
        /\ Pushes(loc[p].calls[1]) # {}
        /\ loc[p].calls[2].ret
             = <<[ClientID |-> <<"x", "-", "y">>, TimestampMillisec |-> 12]>>


\* -------------------------------------------------------------------------
\* C29: removing a record that is not there
\* -------------------------------------------------------------------------

\* The tag of the record call c of RmManagedImage or RmImageCommit removes.
RemovedRecordTag(c) ==
    IF c.op = "RmManagedImage" THEN makeRepoManagedImageRecord(c.args[1])
    ELSE makeRepoImageMetadataByCommitImageRecord(c.args[1], c.args[2])

\* The deletes among the registry calls of call c.
Deletes(c) == {i \in 1..Len(c.reg) : c.reg[i].op = "delete"}

\* In this step invocation p calls RmManagedImage or RmImageCommit.
RmCalled(p) ==
    /\ Len(loc'[p].calls) = Len(loc[p].calls) + 1
    /\ loc'[p].calls[Len(loc'[p].calls)].op \in {"RmManagedImage", "RmImageCommit"}

\* C29: RmManagedImage and RmImageCommit on a record whose tag is absent
\* return success and issue no delete, so of two calls in a row for the same
\* record, the first having removed it, the second succeeds and deletes
\* nothing.
C29_AbsentRecordRemovedWithSuccess ==
    [][\A p \in Procs :
          RmCalled(p) =>
              LET c == loc'[p].calls[Len(loc'[p].calls)]
                  again == /\ Len(loc[p].calls) = 1
                           /\ loc[p].calls[1].op = c.op
                           /\ loc[p].calls[1].args = c.args
                           /\ loc[p].calls[1].err = ""
              IN  (again \/ ~TagExists(stagesRepo, RemovedRecordTag(c)))
                  => /\ c.err = ""
                     /\ Deletes(c) = {}
                     /\ stagesRepo' = stagesRepo]_vars

\* RmImageCommit was called twice for a record of the repo: the first call
\* deleted it, the second found no tag, deleted nothing and succeeded.
C29_Witness ==
    \E p \in Procs :
        /\ CalledTwice(p, {"RmImageCommit"})
        /\ Deletes(loc[p].calls[1]) # {}
        /\ loc[p].calls[1].err = ""
        /\ ~TagExists(stagesRepo, RemovedRecordTag(loc[p].calls[2]))
        /\ Deletes(loc[p].calls[2]) = {}
        /\ loc[p].calls[2].err = ""

\* The same for RmManagedImage.
C29_ManagedImageRemovedTwice ==
    \E p \in Procs :
        /\ CalledTwice(p, {"RmManagedImage"})
        /\ Deletes(loc[p].calls[1]) # {}
        /\ loc[p].calls[1].err = ""
        /\ Deletes(loc[p].calls[2]) = {}
        /\ loc[p].calls[2].err = ""

\* RmManagedImage was called for a name that has no record in a repo with
\* other records, and succeeded without a delete.
C29_AbsentFromTheStart ==
    \E p \in Procs :
        /\ Len(loc[p].calls) = 1
        /\ loc[p].calls[1].op = "RmManagedImage"
        /\ stagesRepo = RecordsRepo
        /\ Deletes(loc[p].calls[1]) = {}
        /\ loc[p].calls[1].err = ""


\* -------------------------------------------------------------------------
\* C30: a managed image with an upper-case name
\* -------------------------------------------------------------------------

\* The name holds an upper-case character.
HasUpperCase(name) ==
    \E i \in 1..Len(name) : \E j \in 1..Len(UpperChars) : name[i] = UpperChars[j]

\* C30: AddManagedImage with a name that holds an upper-case character
\* returns success without an existence check and without a push, and the
\* tags of the repository stay as they are.
C30_UpperCaseNameSkipped ==
    [][\A p \in Procs :
          (/\ Len(loc'[p].calls) = Len(loc[p].calls) + 1
           /\ loc'[p].calls[Len(loc'[p].calls)].op = "AddManagedImage"
           /\ HasUpperCase(loc'[p].calls[Len(loc'[p].calls)].args[1]))
          => /\ loc'[p].calls[Len(loc'[p].calls)].err = ""
             /\ loc'[p].calls[Len(loc'[p].calls)].reg = << >>
             /\ Tags(stagesRepo') = Tags(stagesRepo)]_vars

\* AddManagedImage("a/B") was called on the empty repo, made no registry
\* call and succeeded, and no managed image is read from the repo.
C30_Witness ==
    \E p \in Procs :
        /\ Len(loc[p].calls) = 2
        /\ loc[p].calls[1].op = "AddManagedImage"
        /\ loc[p].calls[1].args[1] = <<"a", "/", "B">>
        /\ loc[p].calls[1].err = ""
        /\ loc[p].calls[1].reg = << >>
        /\ loc[p].calls[2].op = "GetManagedImages"
        /\ loc[p].calls[2].ret = << >>
        /\ stagesRepo = << >>


\* -------------------------------------------------------------------------
\* C28: the list of the Kubernetes probe
\* -------------------------------------------------------------------------

\* The probe of invocation p has returned its list.
Probed(p) ==
    /\ kind[p] = "cleanup"
    /\ \E k \in Entries(p, "except") : log[p][k].phase = "kubernetes"

\* How often the string is in the list.
Occurrences(list, s) == Cardinality({i \in 1..Len(list) : list[i] = s})

\* C28: the list of deployed image names the Kubernetes probe produces over
\* all contexts and all eight workload kinds contains every container image
\* string of those workloads, and contains each string at most once.
C28_EveryImageOnce ==
    \A p \in Procs :
        Probed(p) =>
            /\ \A s \in ProbeOutput : Occurrences(loc[p].deployed, s) >= 1
            /\ \A i \in 1..Len(loc[p].deployed) :
                  Occurrences(loc[p].deployed, loc[p].deployed[i]) <= 1

\* C28, without the count: the strings of the list are the container image
\* strings of the workloads, no more and no fewer.
C28_EveryImageListed ==
    \A p \in Procs :
        Probed(p) =>
            /\ Range(loc[p].deployed) = ProbeOutput
            /\ Len(loc[p].deployed)
                 = Cardinality({<<c, k, j>> \in (DOMAIN env.kube) \X Range(WorkloadKinds) \X (1..4) :
                                   j <= Len(env.kube[c][k])})

\* The probe has returned a list for two contexts whose pods run the same
\* image, next to deployed images of the repo: the image is in the list
\* twice.
C28_Witness ==
    \E p \in Procs :
        /\ Probed(p)
        /\ \E c1, c2 \in DOMAIN env.kube :
              /\ c1 # c2
              /\ \E s \in Range(env.kube[c1]["Pods"]) \cap Range(env.kube[c2]["Pods"]) :
                    Occurrences(loc[p].deployed, s) = 2
        /\ Len(loc[p].deployed) > 3


\* -------------------------------------------------------------------------
\* C31: the stages of a signature
\* -------------------------------------------------------------------------

\* The call invocation p made last is GetStagesBySignature.
LastCallGetsStagesBySignature(p) ==
    /\ Len(loc[p].calls) > 0
    /\ loc[p].calls[Len(loc[p].calls)].op = "GetStagesBySignature"

\* The positions of the tags that decode to the signature.
PositionsOfSignature(tags, signature) ==
    {i \in StagePositions(tags) : SubSeq(tags[i], 1, IndexOf(tags[i], "-") - 1) = signature}

\* C31: GetStagesBySignature(s) returns exactly the stages whose decoded
\* signature equals s, one StageID per such tag and none for a tag whose
\* signature differs from s, such as a longer signature that begins with s.
C31_StagesOfTheSignature ==
    \A p \in Procs :
        LastCallGetsStagesBySignature(p) =>
            LET c == loc[p].calls[Len(loc[p].calls)]
                tags == Tags(stagesRepo)
                at == PositionsOfSignature(tags, c.args[1])
            IN  /\ c.err = ""
                /\ Len(c.ret) = Cardinality(at)
                /\ \A i \in at :
                      c.ret[Cardinality({j \in at : j <= i})]
                        = [Signature |-> c.args[1],
                           UniqueID |-> ParseInt(SubSeq(tags[i], IndexOf(tags[i], "-") + 1,
                                                        Len(tags[i])))]

\* C31, for a signature that no other signature of the repo begins with:
\* the stages returned are those of the tags that decode to it.
C31_StagesOfAnUnsharedSignature ==
    \A p \in Procs :
        LET tags == Tags(stagesRepo)
        IN  (/\ LastCallGetsStagesBySignature(p)
             /\ \A i \in StagePositions(tags) :
                   HasPrefix(tags[i], loc[p].calls[Len(loc[p].calls)].args[1])
                   => i \in PositionsOfSignature(tags, loc[p].calls[Len(loc[p].calls)].args[1]))
            => LET c == loc[p].calls[Len(loc[p].calls)]
                   at == PositionsOfSignature(tags, c.args[1])
               IN  /\ c.err = ""
                   /\ Len(c.ret) = Cardinality(at)
                   /\ \A i \in at :
                         c.ret[Cardinality({j \in at : j <= i})]
                           = [Signature |-> c.args[1],
                              UniqueID |-> ParseInt(SubSeq(tags[i], IndexOf(tags[i], "-") + 1,
                                                           Len(tags[i])))]

\* The stages of signature "s" were asked for in a repo whose stage tags
\* have the signatures "s1" and "s2": three StageIDs of signature "s" came
\* back, for stages the repo does not have.
C31_Witness ==
    \E p \in Procs :
        /\ LastCallGetsStagesBySignature(p)
        /\ loc[p].calls[Len(loc[p].calls)].args[1] = <<"s">>
        /\ PositionsOfSignature(Tags(stagesRepo), <<"s">>) = {}
        /\ loc[p].calls[Len(loc[p].calls)].ret
             = <<[Signature |-> <<"s">>, UniqueID |-> 7],
                 [Signature |-> <<"s">>, UniqueID |-> 12],
                 [Signature |-> <<"s">>, UniqueID |-> 9]>>

\* The stages of signature "s1" were asked for and are the two returned.
C31_StagesOfS1 ==
    \E p \in Procs :
        /\ LastCallGetsStagesBySignature(p)
        /\ loc[p].calls[Len(loc[p].calls)].args[1] = SigS1
        /\ loc[p].calls[Len(loc[p].calls)].ret
             = <<[Signature |-> SigS1, UniqueID |-> 7],
                 [Signature |-> SigS1, UniqueID |-> 12]>>


\* -------------------------------------------------------------------------
\* C32: the fetched images at the end of a cleanup
\* -------------------------------------------------------------------------

\* The images of a map from image names to images.
ImagesOf(m) == UNION {m[n] : n \in DOMAIN m}

\* Invocation p is a cleanup with a local git repository that has returned
\* without error.
CleanupSucceededWithGit(p) ==
    /\ kind[p] = "cleanup"
    /\ pc[p] = "done"
    /\ loc[p].err = ""
    /\ ~opts[p].LocalGitNil

\* C32: after a successful cleanup run with a local git repository, every
\* image fetched at the start is either in the final stored image list or
\* was passed to a delete, never both and never neither; every image the
\* probe found in use in Kubernetes is in the final list.
C32_FetchedKeptOrPassedToDelete ==
    \A p \in Procs :
        CleanupSucceededWithGit(p) =>
            /\ \A i \in ImagesOf(loc[p].fetched) :
                  (i \in ImagesOf(loc[p].imageRepoImageList)) # (i \in PassedToDelete(p))
            /\ ~opts[p].WithoutKube =>
                  \A i \in ImagesOf(loc[p].fetched) :
                      dockerImageName(i) \in ProbeOutput
                      => i \in ImagesOf(loc[p].imageRepoImageList)


\* A git-history run that is no dry run has returned with success: an image
\* in use in Kubernetes is in the final list and was passed to no delete,
\* another image was passed to a delete and is in no list, and a third was
\* kept by the scan.
C32_Witness ==
    \E p \in Procs :
        /\ CleanupSucceededWithGit(p)
        /\ isHistoryMode(opts[p]) /\ ~opts[p].DryRun /\ ~opts[p].WithoutKube
        /\ \E i, j, k \in ImagesOf(loc[p].fetched) :
              /\ dockerImageName(i) \in ProbeOutput
              /\ i \in ImagesOf(loc[p].imageRepoImageList) /\ i \notin PassedToDelete(p)
              /\ j \in PassedToDelete(p) /\ j \notin ImagesOf(loc[p].imageRepoImageList)
              /\ dockerImageName(k) \notin ProbeOutput
              /\ k \in ImagesOf(loc[p].imageRepoImageList)

\* The same in retention mode, in a dry run.
C32_RetentionDryRun ==
    \E p \in Procs :
        /\ CleanupSucceededWithGit(p)
        /\ ~isHistoryMode(opts[p]) /\ opts[p].DryRun /\ ~opts[p].WithoutKube
        /\ \E i, j, k \in ImagesOf(loc[p].fetched) :
              /\ dockerImageName(i) \in ProbeOutput
              /\ i \in ImagesOf(loc[p].imageRepoImageList) /\ i \notin PassedToDelete(p)
              /\ j \in PassedToDelete(p) /\ j \notin ImagesOf(loc[p].imageRepoImageList)
              /\ dockerImageName(k) \notin ProbeOutput
              /\ k \in ImagesOf(loc[p].imageRepoImageList)


\* -------------------------------------------------------------------------
\* C33: stages before managed-image records
\* -------------------------------------------------------------------------

\* The log entries of invocation p for the managed-image records: their
\* listing and their removal.
ManagedEntries(p) == {k \in DOMAIN log[p] : log[p][k].phase = "managed-images"}

\* The log entries of invocation p for the stages.
StagesEntries(p) == {k \in DOMAIN log[p] : log[p][k].phase \in {"stages-purge", "stages"}}

\* The stages part of the purge of invocation p has failed.
StagesPartFailed(p) ==
    /\ kind[p] = "stagesPurge"
    /\ loc[p].err \in {"get all stages failed", "stage deletion failed"}

\* C33: a stages purge deletes stages before managed-image records: when
\* enumerating or deleting the stages fails the error is returned, and no
\* managed-image record has been removed.
C33_StagesBeforeManagedImages ==
    \A p \in Procs :
        kind[p] = "stagesPurge" =>
            /\ \A k \in ManagedEntries(p) :
                  /\ StagesEntries(p) # {}
                  /\ \A j \in StagesEntries(p) : j < k
                  /\ ~StagesPartFailed(p)
            /\ StagesPartFailed(p) =>
                  /\ ManagedEntries(p) = {}
                  /\ pc[p] # "deleteManaged"
            /\ ((pc[p] = "deleteManaged" \/ ManagedEntries(p) # {}) /\ ~opts[p].DryRun) =>
                  stageDescriptions(stagesRepo) = << >>

\* A stages purge has returned the error of a stage the registry refused to
\* delete: the other stages are gone, and every managed-image record of the
\* repo is still there.
C33_Witness ==
    \E p \in Procs :
        /\ kind[p] = "stagesPurge" /\ pc[p] = "done"
        /\ loc[p].err = "stage deletion failed"
        /\ \E k \in DOMAIN log[p] : log[p][k].op = "rm" /\ log[p][k].phase = "stages"
        /\ Len(stageDescriptions(stagesRepo)) = 1
        /\ \A n \in {NameA, NameB, << >>} :
              TagExists(stagesRepo, makeRepoManagedImageRecord(n))

\* A stages purge has returned the error of the enumeration of the stages,
\* with every stage and every managed-image record still there.
C33_EnumerationFailed ==
    \E p \in Procs :
        /\ kind[p] = "stagesPurge" /\ pc[p] = "done"
        /\ loc[p].err = "get all stages failed"
        /\ stagesRepo = BaseEntries \o BaseMetadata

\* A stages purge has removed the stages and then the managed-image records.
C33_BothRemoved ==
    \E p \in Procs :
        /\ kind[p] = "stagesPurge" /\ pc[p] = "done" /\ loc[p].err = ""
        /\ ~opts[p].DryRun
        /\ \E j, k \in DOMAIN log[p] :
              /\ j < k
              /\ log[p][j].op = "rm" /\ log[p][j].phase = "stages"
              /\ log[p][k].op = "rm" /\ log[p][k].phase = "managed-images"


\* -------------------------------------------------------------------------
\* C34: no managed-image record after a purge
\* -------------------------------------------------------------------------

\* The tags of the repo with the managed-image prefix.
ManagedRecordTags(repo) ==
    {repo[k].tag : k \in {j \in 1..Len(repo) :
                            HasPrefix(repo[j].tag, RepoManagedImageRecord_ImageTagPrefix)}}

\* C34: after a successful purge that is not a dry run, the tag list of the
\* repository holds no tag with the managed-image prefix: every such tag,
\* whatever name it decodes to, has been deleted.
C34_NoManagedRecordLeft ==
    \A p \in Procs : PurgeSucceeded(p) => ManagedRecordTags(stagesRepo) = {}

\* A tag that AddManagedImage writes for some name: the slug of a lower-case
\* name, after the prefix.
WrittenByAddManagedImage(tag) ==
    LET suffix == TrimPrefix(tag, RepoManagedImageRecord_ImageTagPrefix)
        name == unslugDockerImageTagAsImageName(suffix)
    IN  /\ validateImageNameOk(name)
        /\ slugImageNameAsDockerImageTag(name) = suffix

\* C34, for the records AddManagedImage writes: none is left, and the tags
\* left are those it does not write.
C34_NoWrittenRecordLeft ==
    \A p \in Procs :
        PurgeSucceeded(p) =>
            \A t \in ManagedRecordTags(stagesRepo) : ~WrittenByAddManagedImage(t)

\* A purge has returned with success on a repo that held the records of
\* "s" and "/" and the tag managed-image-S: the two records are gone, the
\* tag is still there.
C34_Witness ==
    \E p \in Procs :
        /\ PurgeSucceeded(p)
        /\ \E k \in DOMAIN log[p] :
              /\ log[p][k].op = "rm" /\ log[p][k].phase = "managed-images"
              /\ log[p][k].tags = {makeRepoManagedImageRecord(<<"s">>),
                                   makeRepoManagedImageRecord(<<"/">>)}
        /\ ManagedRecordTags(stagesRepo) = {RepoManagedImageRecord_ImageTagPrefix \o <<"S">>}

\* A stages purge has returned with success and the tag managed-image-,
\* read as the record of the nameless image, is still there.
C34_EmptySuffixLeft ==
    \E p \in Procs :
        /\ PurgeSucceeded(p)
        /\ ManagedRecordTags(stagesRepo) = {RepoManagedImageRecord_ImageTagPrefix}

\* A purge has removed the records of "s", "/" and the nameless image, and
\* no tag with the prefix is left.
C34_AllRemoved ==
    \E p \in Procs :
        /\ PurgeSucceeded(p)
        /\ \E k \in DOMAIN log[p] :
              /\ log[p][k].op = "rm" /\ log[p][k].phase = "managed-images"
              /\ Cardinality(log[p][k].tags) = 3
        /\ ManagedRecordTags(stagesRepo) = {}


\* The places in the log of invocation p where the caller cancelled the context.
CancelledAt(p) == {k \in DOMAIN log[p] : log[p][k].op = "cancel"}

\* The removals invocation p has asked the stages storage for after the
\* caller cancelled the context.
RemovalsAfterCancel(p) ==
    {k \in Entries(p, "rm") : log[p][k].issued /\ \E c \in CancelledAt(p) : c < k}

\* C35: when the context of the caller is cancelled while a cleanup or a purge
\* is deleting, the delete in progress completes, no further delete is issued,
\* and the locks held are released: after the cancellation no removal is asked
\* of the stages storage, and the invocation ends holding no lock.
C35_NoDeleteAfterCancel ==
    \A p \in Procs :
        /\ RemovalsAfterCancel(p) = {}
        /\ pc[p] = "done" =>
              dlock[p] = "" /\ \A n \in HostLockNames : hostLock[n] # p

\* C35, the locks: an invocation whose context was cancelled ends holding
\* neither the lock of the project nor a host lock.
C35_LocksReleasedAfterCancel ==
    \A p \in Procs :
        CancelledAt(p) # {} /\ pc[p] = "done" =>
            dlock[p] = "" /\ \A n \in HostLockNames : hostLock[n] # p

\* C35, the registry: with calls that return the error of a cancelled context
\* and do nothing, no record leaves the repo after the cancellation.
C35_NothingRemovedAfterCancel == [][env.cancelled => stagesRepo' = stagesRepo]_vars

\* C35, the stages purge: the loop of "Deleting managed images" calls
\* RmManagedImage once after the cancellation and returns its error.
C35_PurgeAsksOnceAfterCancel ==
    \A p \in Procs :
        kind[p] = "stagesPurge" => Cardinality(RemovalsAfterCancel(p)) <= 1

\* C35: a git-history-based cleanup cancelled in the loops of "Deleting unused
\* images metadata" has asked for the removal of a record after the
\* cancellation, and ended with no error.
C35_Witness ==
    \E p \in Procs :
        /\ kind[p] = "cleanup" /\ pc[p] = "done" /\ loc[p].err = ""
        /\ \E c \in CancelledAt(p) : log[p][c].phase = "metadataLoop"
        /\ \E k \in RemovalsAfterCancel(p) : log[p][k].phase = "metadata"

\* C35: a stages purge cancelled in the loop of "Deleting managed images" has
\* called RmManagedImage after the cancellation and ended with its error.
C35_PurgeCancelled ==
    \E p \in Procs :
        /\ kind[p] = "stagesPurge" /\ pc[p] = "done" /\ loc[p].err = "context canceled"
        /\ RemovalsAfterCancel(p) # {}


\* A cleanup that has detected no local git repository.
WithoutLocalGit(p) == kind[p] = "cleanup" /\ opts[p].LocalGitNil

\* C36: when no local git repository is detected (LocalGit is nil), a cleanup
\* in either mode passes no image and no metadata record to a delete, leaves
\* the repos and the image list it has fetched as they are, ends with its
\* locks released, and returns success when the locks were taken and the
\* images fetched.
C36_WithoutLocalGitNothingDone ==
    \A p \in Procs :
        WithoutLocalGit(p) =>
            /\ Entries(p, "delete") \cup Entries(p, "rm") = {}
            /\ imagesRepo = ImageIds
            /\ loc[p].fetched # EmptyMap =>
                  /\ loc[p].imageRepoImageList = loc[p].fetched
                  /\ loc[p].fetched = selectRepoImagesFromImagesRepo(ImageIds)
            /\ pc[p] = "done" =>
                  /\ dlock[p] = "" /\ \A n \in HostLockNames : hostLock[n] # p
                  /\ env.fail[p] = "none" =>
                        loc[p].err = "" /\ loc[p].fetched # EmptyMap

\* C36: a cleanup without a local git repository, not a dry run and with the
\* Kubernetes pass enabled, has fetched the images and returned with no error.
C36_Witness ==
    \E p \in Procs :
        /\ WithoutLocalGit(p) /\ ~opts[p].DryRun /\ ~opts[p].WithoutKube
        /\ pc[p] = "done" /\ loc[p].err = ""
        /\ loc[p].imageRepoImageList = selectRepoImagesFromImagesRepo(ImageIds)
        /\ \E k \in Entries(p, "list") : log[p][k].phase = "init"


\* Invocation p has put a metadata record with success and made a call of op
\* next.
PutThenCalled(p, op) ==
    /\ Len(loc[p].calls) = 2
    /\ loc[p].calls[1].op = "PutImageCommit" /\ loc[p].calls[1].err = ""
    /\ loc[p].calls[2].op = op

\* The record invocation p has put is the only one in the repo.
OnlyThePutRecord(p) ==
    Tags(stagesRepo) = <<makeRepoImageMetadataByCommitImageRecord(loc[p].calls[1].args[1],
                                                                  loc[p].calls[1].args[2])>>

\* C37, reading back: after PutImageCommit(name, commit, m) succeeded,
\* GetImageCommits(name) contains commit and GetImageMetadataByCommit(name,
\* commit) returns the content signature of m.
C37_PutCommitReadBack ==
    \A p \in Procs :
        LET put == loc[p].calls[1]
            got == loc[p].calls[2]
        IN  /\ PutThenCalled(p, "GetImageCommits") /\ got.args[1] = put.args[1] =>
                  got.err = "" /\ Contains(got.ret, put.args[2])
            /\ (/\ PutThenCalled(p, "GetImageMetadataByCommit")
                /\ got.args = <<put.args[1], put.args[2]>>) =>
                  got.err = "" /\ got.ret = <<[ContentSignature |-> put.args[3]]>>

\* The tag of the name and the commit is within the cap as it is: no part of
\* it is the hash that slug.LimitedSlug puts at the end of a name it cuts.
Unshrunk(imageName, commit) == Len(UnshrunkTag(imageName, commit)) <= MetadataTagMaxLen

\* C37, the other names: GetImageCommits(name) returns no commit that was
\* stored for a different image name only (names of tags within the cap).
C37_NoCommitOfAnotherName ==
    \A p \in Procs :
        (/\ PutThenCalled(p, "GetImageCommits") /\ OnlyThePutRecord(p)
         /\ loc[p].calls[2].args[1] # loc[p].calls[1].args[1]
         /\ Unshrunk(loc[p].calls[1].args[1], loc[p].calls[1].args[2])
         /\ Unshrunk(loc[p].calls[2].args[1], loc[p].calls[1].args[2])) =>
            loc[p].calls[2].ret = << >>

\* C37, the names of different slugs: GetImageCommits(name) returns no
\* commit that was stored only for a name with another slug.
C37_NoCommitOfAnotherSlug ==
    \A p \in Procs :
        (/\ PutThenCalled(p, "GetImageCommits") /\ OnlyThePutRecord(p)
         /\ slugImageNameAsDockerImageTag(loc[p].calls[2].args[1])
               # slugImageNameAsDockerImageTag(loc[p].calls[1].args[1])
         /\ Unshrunk(loc[p].calls[1].args[1], loc[p].calls[1].args[2])
         /\ Unshrunk(loc[p].calls[2].args[1], loc[p].calls[1].args[2])) =>
            loc[p].calls[2].ret = << >>

\* C37: for every lower-case image name and commit hash, after
\* PutImageCommit(name, commit, m) succeeded GetImageCommits(name) contains
\* commit and GetImageMetadataByCommit(name, commit) returns the content
\* signature of m, and GetImageCommits(name) never returns a commit that was
\* stored for a different image name only.
C37_CommitsOfTheNameOnly == C37_PutCommitReadBack /\ C37_NoCommitOfAnotherName

\* C37: the commit put for the name 'b__slash__x' into an empty repo has been
\* returned by GetImageCommits("b/x").
C37_Witness ==
    \E p \in Procs :
        /\ PutThenCalled(p, "GetImageCommits") /\ OnlyThePutRecord(p)
        /\ loc[p].calls[1].args[1] = <<"b">> \o Slash \o <<"x">>
        /\ loc[p].calls[2].args[1] = NameB
        /\ loc[p].calls[2].ret = <<loc[p].calls[1].args[2]>>

\* C37: the full commit hash put for the longest name has been returned by
\* GetImageCommits of the name.
C37_LongNameReadBack ==
    \E p \in Procs :
        /\ PutThenCalled(p, "GetImageCommits")
        /\ loc[p].calls[1].args[1] = LongName(MaxNameLen)
        /\ loc[p].calls[1].args[2] = FullCommit
        /\ loc[p].calls[2].args[1] = LongName(MaxNameLen)
        /\ Contains(loc[p].calls[2].ret, FullCommit)


\* The images of name the limit step of strategy st has passed to a delete.
DeletedByLimit(p, name, st) ==
    UNION {log[p][k].imgs :
              k \in {j \in Entries(p, "delete") :
                        log[p][j].name = name /\ log[p][j].phase = st \o " limit policy"}}

\* The images of name and strategy st that are not expired when the policy
\* pass of p looks at them.
NotExpired(p, name, st) ==
    LET o == PolicyOptionsOf(opts[p].Policies, st)
    IN  {i \in GivenToPolicy(p, name, st) :
            ~(o.hasExpiryPeriod /\ Info(i).CreatedAt < timeNow(p) - o.expiryPeriod)}

\* The limit steps of p have deleted min(n, max(0, n - limit)) of the n
\* images that are not expired, for every image name and strategy with a limit.
LimitStepDeletedExactly(p) ==
    \A name \in ImageNames, st \in PolicyStrategies :
        LET o == PolicyOptionsOf(opts[p].Policies, st)
            n == Cardinality(NotExpired(p, name, st))
        IN  o.hasLimit =>
                /\ DeletedByLimit(p, name, st) \subseteq NotExpired(p, name, st)
                /\ Cardinality(DeletedByLimit(p, name, st)) = Min(n, Max(0, n - o.limit))

\* C38: the limit step of the retention policy never fails and never deletes
\* more images than exist: for every configured limit, zero and the negative
\* ones included, and every number n of images that are not expired it
\* deletes exactly min(n, max(0, n - limit)) images.
C38_LimitStepNeverFails ==
    \A p \in Procs :
        RetentionRunOver(p) => loc[p].err = "" /\ LimitStepDeletedExactly(p)

\* C38 where it holds: the same for the runs in which no configured limit is
\* negative.
C38_LimitStepUnderNaturalLimits ==
    \A p \in Procs :
        /\ RetentionRunOver(p)
        /\ \A st \in PolicyStrategies :
              LET o == PolicyOptionsOf(opts[p].Policies, st)
              IN  o.hasLimit => o.limit >= 0
        => loc[p].err = "" /\ LimitStepDeletedExactly(p)

\* C38: a retention cleanup with the stages-signature limit -1 and an image
\* of that strategy that is not expired has ended in the panic of the limit
\* step.
C38_Witness ==
    \E p \in Procs :
        /\ RetentionRunOver(p)
        /\ StagesSignaturePolicyOptions(opts[p].Policies).hasLimit
        /\ StagesSignaturePolicyOptions(opts[p].Policies).limit = 0 - 1
        /\ ~GitTagPolicyOptions(opts[p].Policies).hasLimit
        /\ \E name \in ImageNames : NotExpired(p, name, StagesSignature) # {}
        /\ loc[p].err = "panic"

\* C38: a retention cleanup with the limit 0 has deleted every image of a
\* strategy that is not expired.
C38_LimitZeroDeletesAll ==
    \E p \in Procs, name \in ImageNames :
        /\ RetentionRunOver(p) /\ ~opts[p].DryRun
        /\ GitTagPolicyOptions(opts[p].Policies).hasLimit
        /\ GitTagPolicyOptions(opts[p].Policies).limit = 0
        /\ NotExpired(p, name, GitTag) # {}
        /\ DeletedByLimit(p, name, GitTag) = NotExpired(p, name, GitTag)


\* C39: in git-history mode the "runtime error" panic is unreachable: every
\* content signature the scan of the references history hands back is a key
\* of the grouping, for the image name, of the images to clean up by content
\* signature (the scan returning only signatures it was given).
C39_PanicUnreachable ==
    \A p \in Procs :
        HistoryCleanup(p) =>
            /\ loc[p].err # "panic"
            /\ \A n \in DOMAIN loc[p].reached :
                  n \in DOMAIN loc[p].groups
                  /\ loc[p].reached[n] \subseteq DOMAIN loc[p].groups[n]

\* C39: a git-history-based cleanup has gone through the loop for two image
\* names; the scan has handed back a signature for one of them, and for the
\* other the grouping has a signature the scan was not given.
C39_Witness ==
    \E p \in Procs :
        /\ HistoryCleanup(p) /\ pc[p] = "done" /\ loc[p].err = ""
        /\ \E n \in DOMAIN loc[p].reached : loc[p].reached[n] # {}
        /\ \E n \in DOMAIN loc[p].reached :
              DOMAIN loc[p].groups[n] \ DOMAIN MapGet(loc[p].existing, n) # {}

====
